---- MODULE Spec2Model ----
(***************************************************************************)
(* LLM orchestration pipeline of the travel-planning chatbot backend:      *)
(* AiService (provider registry and defaults), the provider layer          *)
(* (generateJSON, usage statistics), the schema validator, the intent      *)
(* extraction chain and the itinerary generation chain.                    *)
(*                                                                         *)
(* Conventions.  An optional value (a JavaScript value that may be         *)
(* undefined / a missing key) is a sequence of length 0 or 1: <<>> is      *)
(* "absent", <<v>> is "present with value v".  Real numbers are scaled     *)
(* integers: confidence in hundredths (0.7 is 70), money in tenths of a    *)
(* currency unit, usage cost in 1e-8 dollars.  A string is a sequence of   *)
(* UTF-16 code units where its characters matter (queries), a TLA+ string  *)
(* otherwise.                                                              *)
(***************************************************************************)
EXTENDS Integers, Sequences, FiniteSets, TLC

VARIABLES
    \* ---- configuration, AiService, providers
    apiKeys,          \* ConfigService: the set of provider types whose API key is set
    providers,        \* AiService.providers: provider type -> registered instance
    defaultProvider,  \* AiService.defaultProvider
    defaultModel,     \* AiService.defaultModel
    usageStats,       \* BaseLLMProvider.usageStats, per provider instance
    \* ---- one invocation of IntentChain.extract
    exPc,             \* "idle" | "awaiting" | "returned" | "failed"
    exDto,            \* the ExtractIntentDto of the invocation
    exLocale,         \* the resolved locale (optional: absent while idle)
    exTemplates,      \* the getTemplate calls made, in order: <<name, locale>>
    exRaw,            \* the backend response the invocation received (optional)
    exResponse,       \* the value generateJSON resolved with (optional)
    exResult,         \* the IntentResult returned (optional)
    exError,          \* the error raised
    \* ---- IntentChain.isActionable applied to one intent
    iaPc,             \* "input" | "done"
    iaIntent,         \* the intent passed in
    iaResult,         \* the boolean returned (meaningful when iaPc = "done")
    \* ---- one invocation of IntentChain.extractBatch
    bxPc,             \* "idle" | "pending" | "resolved" | "rejected"
    bxQueries,        \* the ExtractIntentDto sequence passed in
    bxItems,          \* per query, the extract call: pc, locale, response, result, error
    bxOrder,          \* the indices of the extract calls, in the order they settled
    bxResults,        \* the IntentResult sequence extractBatch returned
    bxError,          \* the error extractBatch raised
    \* ---- one invocation of ItineraryChain.generate
    itPc,             \* "idle" | "awaiting" | "returned" | "failed"
    itDto,            \* the GenerateItineraryDto of the invocation
    itTemplates,      \* the getTemplate calls made, in order: <<name, locale>>
    itWarned,         \* validateDateRange logged a days mismatch
    itCalls,          \* calls made so far: "generateJSON", "validate", "sort", ...
    itResponse,       \* the value generateJSON resolved with (optional)
    itResult,         \* the GeneratedItinerary returned (optional)
    itError,          \* the error raised
    \* ---- ItineraryChain.estimateQuality / getStatistics applied to one itinerary
    qaItinerary,      \* the itinerary object passed in (the caller's object)
    eqScores,         \* the scores estimateQuality returned, in call order
    gsResult,         \* what getStatistics returned (optional)
    \* ---- calls made directly on one provider instance
    pvInst,           \* the provider instance the calls are made on
    pvCalls,          \* the calls of the current round: method, pc, usage reported
    pvOrder,          \* the indices of the calls, in the order they settled
    pvBase,           \* the instance's usage stats when the round began
    pvResetSeen,      \* resetUsageStats was called during the round
    pvSucceeded,      \* calls that returned successfully since the last reset
    \* ---- AiService: registerProvider, getProvider and the delegating calls
    regLog,           \* the registerProvider calls since construction: <<type, instance>>
    gpCall,           \* the last getProvider call since the last registration (optional)
    svPc,             \* "idle" | "awaiting" | "returned" | "failed"
    svCall,           \* the call made on the service: method, options, provider
    svProviderCalls,  \* the operations invoked on providers: instance, method, options
    svProviderOutcome,\* how the provider operation settled (optional)
    svOutcome,        \* how the service call settled (optional)
    \* ---- one iteration of a provider's stream()
    smInst,           \* the provider instance stream() is called on
    smPc,             \* "idle" | "streaming" | "stopping" | "completed" | "failed"
    smConsumed,       \* backend events the generator has consumed
    smChunks,          \* the elements the generator has yielded, in order
    \* ---- PromptTemplateService: the prompts directory, loading and lookup
    ptDirs,           \* the locale directories that exist under prompts/
    ptFiles,          \* the template files that exist: <<locale, name>>
    ptTemplates,      \* PromptTemplateService.templates: name -> optional {en, zh}
    ptSeen,           \* the directories and files as they were at the last load
    ptGet,             \* the last getTemplate call since the last load or file change (optional)
    \* ---- SchemaValidator.validate / validateOrThrow, called in sequence
    vlCalls,           \* the calls made on the validator: method, schema, data, threw, result
    \* ---- chat / generateJSON on one provider with one caller-owned message array
    cmInst,           \* the provider instance the calls are made on
    cmMessages,       \* the ChatMessage array of the caller, as it is now
    cmOriginal,       \* the ChatMessage array as the caller built it
    cmPc,             \* "idle" | "awaiting" | "returned" | "failed"
    cmJsonCalls,      \* generateJSON calls made with the array
    cmDispatched      \* the request of the current call, as sent to the backend (optional)

vars == << apiKeys, providers, defaultProvider, defaultModel, usageStats,
           exPc, exDto, exLocale, exTemplates, exRaw, exResponse, exResult,
           exError, iaPc, iaIntent, iaResult,
           bxPc, bxQueries, bxItems, bxOrder, bxResults, bxError,
           itPc, itDto, itTemplates, itWarned, itCalls, itResponse, itResult,
           itError, qaItinerary, eqScores, gsResult,
           pvInst, pvCalls, pvOrder, pvBase, pvResetSeen, pvSucceeded,
           regLog, gpCall, svPc, svCall, svProviderCalls, svProviderOutcome,
           svOutcome,
           smInst, smPc, smConsumed, smChunks,
           ptDirs, ptFiles, ptTemplates, ptSeen, ptGet,
           vlCalls,
           cmInst, cmMessages, cmOriginal, cmPc, cmJsonCalls, cmDispatched >>

aiVars == << apiKeys, providers, defaultProvider, defaultModel >>
exVars == << exPc, exDto, exLocale, exTemplates, exRaw, exResponse, exResult,
            exError >>
iaVars == << iaPc, iaIntent, iaResult >>
bxVars == << bxPc, bxQueries, bxItems, bxOrder, bxResults, bxError >>
itVars == << itPc, itDto, itTemplates, itWarned, itCalls, itResponse, itResult,
            itError >>
qaVars == << qaItinerary, eqScores, gsResult >>
pvVars == << pvInst, pvCalls, pvOrder, pvBase, pvResetSeen, pvSucceeded >>
svVars == << regLog, gpCall, svPc, svCall, svProviderCalls, svProviderOutcome,
            svOutcome >>
smVars == << smInst, smPc, smConsumed, smChunks >>
ptVars == << ptDirs, ptFiles, ptTemplates, ptSeen, ptGet >>
vlVars == << vlCalls >>
cmVars == << cmInst, cmMessages, cmOriginal, cmPc, cmJsonCalls, cmDispatched >>
\* The state of the parts exercised on their own.
partVars == << svVars, smVars, ptVars, vlVars, cmVars >>
\* The state of the chains and of the direct provider calls.
chainVars == << qaVars, pvVars, exVars, iaVars, bxVars, itVars >>
\* What the actions of one part leave alone.
besidesService == << chainVars, smVars, ptVars, vlVars, cmVars >>
besidesStream == << aiVars, usageStats, chainVars, svVars, ptVars, vlVars, cmVars >>
besidesTemplates == << aiVars, usageStats, chainVars, svVars, smVars, vlVars, cmVars >>
besidesValidate == << aiVars, usageStats, chainVars, svVars, smVars, ptVars, cmVars >>
besidesMessages == << aiVars, usageStats, chainVars, svVars, smVars, ptVars, vlVars >>

(***************************************************************************)
(* Bounds of the model                                                     *)
(***************************************************************************)
MaxQueryLen == 2      \* longest query, in UTF-16 code units
MaxRequests == 2      \* provider calls counted before resetUsageStats is needed
MaxBatch == 2         \* longest query sequence given to extractBatch
MaxDays == 2          \* most days in a generated itinerary
MaxActs == 3          \* most activities in a generated itinerary
MaxBaseDays == 3      \* most days of the day pattern of an inspected itinerary
MaxRepeat == 3        \* most repetitions of the day pattern
MaxQualityCalls == 2  \* estimateQuality calls on one itinerary
MaxConcurrent == 2    \* calls in flight at once on one provider instance
MaxRegistrations == 3 \* registerProvider calls since construction, the factory's included
MaxStreamEvents == 3  \* backend events of one stream before the last one
MaxValidations == 2   \* calls made on the schema validator
MaxMessages == 2      \* most messages in a conversation given to a provider
MaxJsonCalls == 2     \* generateJSON calls made with one message array

(***************************************************************************)
(* Errors.  message is the fixed text of the Error, provider the provider  *)
(* name handleError prefixes, cause the wrapped message, errors the        *)
(* validator's error list carried in the text.                             *)
(***************************************************************************)
NoError == [message |-> "", provider |-> "", cause |-> "", errors |-> <<>>]

MkError(message, provider, cause, errors) ==
    [message |-> message, provider |-> provider, cause |-> cause, errors |-> errors]

(***************************************************************************)
(* AiService: defaults and provider registry                               *)
(***************************************************************************)
LLMProviderTypes == {"openai", "anthropic"}

NoProvider == "none"

\* The instances the module factory constructs, one per provider class.
ProviderInstances == {"OpenAIProvider", "AnthropicProvider"}

\* BaseLLMProvider.name of an instance (super('openai') / super('anthropic')).
ProviderName(inst) == IF inst = "AnthropicProvider" THEN "anthropic" ELSE "openai"

\* A selection that prefers OpenAI.
InitialDefaultProviderOpenAIFirst(keys) ==
    IF "openai" \in keys THEN "openai" ELSE "anthropic"

InitialDefaultProvider(keys) ==
    IF "anthropic" \in keys THEN "anthropic" ELSE "openai"

InitialDefaultModel(provider) ==
    IF provider = "anthropic" THEN "claude-3-5-sonnet-20241022" ELSE "gpt-4o-mini"

\* aiServiceFactory: a provider is constructed and registered iff its key is set.
FactoryProviders(keys) ==
    [t \in LLMProviderTypes |->
        IF t \in keys
        THEN (IF t = "openai" THEN "OpenAIProvider" ELSE "AnthropicProvider")
        ELSE NoProvider]

\* AiService.getProvider: the resolved type and the instance found (or none).
GetProvider(type) ==
    LET providerType == IF type # <<>> THEN type[1] ELSE defaultProvider
    IN  [type |-> providerType, instance |-> providers[providerType]]

(***************************************************************************)
(* Provider layer: usage statistics and generateJSON                       *)
(***************************************************************************)
ZeroStats ==
    [totalTokens |-> 0, promptTokens |-> 0, completionTokens |-> 0,
     totalCost |-> 0, requestCount |-> 0]

\* Pricing per 1M tokens in hundredths of a dollar, so that a cost is in 1e-8 $.
Pricing(inst, model) ==
    IF inst = "AnthropicProvider"
    THEN CASE model = "claude-3-opus-20240229"      -> [input |-> 1500, output |-> 7500]
           [] model = "claude-3-5-sonnet-20241022"  -> [input |-> 300,  output |-> 1500]
           [] model = "claude-3-sonnet-20240229"    -> [input |-> 300,  output |-> 1500]
           [] model = "claude-3-haiku-20240307"     -> [input |-> 25,   output |-> 125]
           [] OTHER                                 -> [input |-> 80,   output |-> 400]
    ELSE CASE model = "gpt-4o"                      -> [input |-> 250,  output |-> 1000]
           [] model = "gpt-4-turbo"                 -> [input |-> 1000, output |-> 3000]
           [] model = "gpt-4-turbo-preview"         -> [input |-> 1000, output |-> 3000]
           [] model = "gpt-4"                       -> [input |-> 3000, output |-> 6000]
           [] model = "gpt-3.5-turbo"               -> [input |-> 50,   output |-> 150]
           [] OTHER                                 -> [input |-> 15,   output |-> 60]

CalculateCost(inst, model, promptTokens, completionTokens) ==
    promptTokens * Pricing(inst, model).input
        + completionTokens * Pricing(inst, model).output

\* trackUsage that leaves the prompt tokens out of totalTokens.
TrackUsageCompletionOnly(stats, inst, model, promptTokens, completionTokens) ==
    [totalTokens      |-> stats.totalTokens + completionTokens,
     promptTokens     |-> stats.promptTokens + promptTokens,
     completionTokens |-> stats.completionTokens + completionTokens,
     totalCost        |-> stats.totalCost
                            + CalculateCost(inst, model, promptTokens, completionTokens),
     requestCount     |-> stats.requestCount + 1]

TrackUsage(stats, inst, model, promptTokens, completionTokens) ==
    [totalTokens      |-> stats.totalTokens + (promptTokens + completionTokens),
     promptTokens     |-> stats.promptTokens + promptTokens,
     completionTokens |-> stats.completionTokens + completionTokens,
     totalCost        |-> stats.totalCost
                            + CalculateCost(inst, model, promptTokens, completionTokens),
     requestCount     |-> stats.requestCount + 1]

(***************************************************************************)
(* A backend response to a generateJSON request: the text of the reply     *)
(* (kind "json": text that parses as JSON, to the value `value`; kind      *)
(* "text": text that is not JSON; kind "empty": no text content) and the   *)
(* token usage the backend reports.  A response of kind other than "json"  *)
(* carries the empty object as its value, which is never read.             *)
(***************************************************************************)
UsageReports == { [prompt |-> 12, completion |-> 7] }

\* The text handed to JSON.parse: AnthropicProvider.extractContent yields ''
\* when there is no text block; OpenAIProvider substitutes '{}' for an empty
\* or missing content.
ContentKind(inst, raw) ==
    IF raw.kind = "empty"
    THEN (IF inst = "AnthropicProvider" THEN "emptyString" ELSE "emptyObject")
    ELSE raw.kind

\* The part of generateJSON that runs once the backend has answered:
\* trackUsage happens before JSON.parse, and a SyntaxError of JSON.parse is
\* caught and rethrown by handleError.  emptyObject is the value of '{}'.
GenerateJSONContinue(inst, model, raw, emptyObject, stats) ==
    LET kind    == ContentKind(inst, raw)
        tracked == TrackUsage(stats, inst, model, raw.usage.prompt, raw.usage.completion)
    IN  CASE kind = "json" ->
               [ok |-> TRUE, value |-> raw.value, error |-> NoError, stats |-> tracked]
          [] kind = "emptyObject" ->
               [ok |-> TRUE, value |-> emptyObject, error |-> NoError, stats |-> tracked]
          [] OTHER ->
               [ok |-> FALSE, value |-> emptyObject,
                error |-> MkError("GenerateJSON", ProviderName(inst),
                                  "SyntaxError", <<>>),
                stats |-> tracked]

\* The backend call itself rejects (network, auth, quota): handleError rethrows.
GenerateJSONTransportError(inst) ==
    MkError("GenerateJSON", ProviderName(inst), "transport", <<>>)

\* BaseLLMProvider.resetUsageStats on every registered provider.
ResetAllUsageStats ==
    /\ \E i \in ProviderInstances : usageStats[i].requestCount > 0
    /\ usageStats' = [i \in ProviderInstances |->
                        IF \E t \in LLMProviderTypes : providers[t] = i
                        THEN ZeroStats ELSE usageStats[i]]
    /\ UNCHANGED << aiVars, qaVars, pvVars, partVars, exVars, iaVars, bxVars, itVars >>

(***************************************************************************)
(* Schema validator and the intent schema                                  *)
(***************************************************************************)
IntentTypes ==
    {"create_itinerary", "compare_prices", "recommend_restaurant",
     "recommend_rental", "check_weather", "check_traffic",
     "general_query", "greeting", "help"}

Locales == {"en", "zh"}

\* parameters: an open mapping; the slots the chains read are modelled.
EmptyParameters ==
    [destination |-> <<>>, duration |-> <<>>, specificRequests |-> <<>>]

\* A JSON object as the model may produce it for an intent: every key may be
\* missing, may hold a value outside the schema, and unknown keys may be there
\* (extra).  The value of '{}' has every key missing.
EmptyIntentObject ==
    [type |-> <<>>, confidence |-> <<>>, parameters |-> <<>>, locale |-> <<>>,
     extra |-> FALSE]

Issue(path, message) == [path |-> path, message |-> message]

\* intentSchema.parse: the issues, in the order of the schema's keys.
IntentSchemaIssues(obj) ==
    (IF obj.type = <<>> THEN << Issue("type", "Required") >>
     ELSE IF obj.type[1] \notin IntentTypes
          THEN << Issue("type", "Invalid enum value") >> ELSE <<>>)
    \o
    (IF obj.confidence = <<>> THEN << Issue("confidence", "Required") >>
     ELSE IF obj.confidence[1] < 0
          THEN << Issue("confidence", "Number must be greater than or equal to 0") >>
     ELSE IF obj.confidence[1] > 100
          THEN << Issue("confidence", "Number must be less than or equal to 1") >>
          ELSE <<>>)
    \o
    (IF obj.parameters = <<>> THEN << Issue("parameters", "Required") >> ELSE <<>>)
    \o
    (IF obj.locale = <<>> THEN << Issue("locale", "Required") >>
     ELSE IF obj.locale[1] \notin Locales
          THEN << Issue("locale", "Invalid enum value") >> ELSE <<>>)

\* intentSchema.parse on success: the declared keys only (z.object strips
\* unknown keys); detectedLanguage and metadata are not set by the schema.
IntentSchemaData(obj) ==
    [type |-> obj.type[1], confidence |-> obj.confidence[1],
     parameters |-> obj.parameters[1], locale |-> obj.locale[1],
     detectedLanguage |-> <<>>, metadata |-> <<>>]

\* SchemaValidator.validate: never throws; data on success, errors on failure.
Validate(issues, data) ==
    IF issues = <<>>
    THEN [valid |-> TRUE,  data |-> << data >>, errors |-> <<>>]
    ELSE [valid |-> FALSE, data |-> <<>>,       errors |-> issues]

ValidateIntent(obj) ==
    Validate(IntentSchemaIssues(obj),
             IF IntentSchemaIssues(obj) = <<>> THEN IntentSchemaData(obj)
             ELSE IntentSchemaData([type |-> <<"">>, confidence |-> <<0>>,
                                    parameters |-> <<EmptyParameters>>,
                                    locale |-> <<"">>]))

(***************************************************************************)
(* Intent chain                                                            *)
(***************************************************************************)
\* chineseRegex = /[\u4e00-\u9fff]/, tested against each UTF-16 code unit
ChineseRegexLow == 19968     \* 0x4E00
ChineseRegexHigh == 40959    \* 0x9FFF

\* Variant: the lower end of the character class is left out.
ChineseRegexMatchesOpenLow(unit) == ChineseRegexLow < unit /\ unit <= ChineseRegexHigh

ChineseRegexMatches(unit) == ChineseRegexLow <= unit /\ unit <= ChineseRegexHigh

DetectLanguage(query) ==
    IF \E i \in 1..Len(query) : ChineseRegexMatches(query[i]) THEN "zh" ELSE "en"

\* const locale = dto.locale || this.detectLanguage(dto.query)
ResolveLocale(dto) ==
    IF dto.locale # <<>> THEN dto.locale[1] ELSE DetectLanguage(dto.query)

\* The getTemplate calls of extract, in order.
ExtractTemplates(locale) == << <<"system", locale>>, <<"intent", locale>> >>

\* Variant: the fallback intent always carries the locale en.
CreateFallbackIntentEnglish(query, locale) ==
    [type |-> "general_query", confidence |-> 50, parameters |-> EmptyParameters,
     locale |-> "en", detectedLanguage |-> <<>>,
     metadata |-> << [fallback |-> TRUE, originalQuery |-> query] >>]

CreateFallbackIntent(query, locale) ==
    [type |-> "general_query", confidence |-> 50, parameters |-> EmptyParameters,
     locale |-> locale, detectedLanguage |-> <<>>,
     metadata |-> << [fallback |-> TRUE, originalQuery |-> query] >>]

\* Variant: detectedLanguage is taken from the locale the model reported.
ExtractOutcomeModelLocale(dto, locale, response) ==
    LET validationResult == ValidateIntent(response)
    IN  IF ~validationResult.valid
        THEN [type |-> "general_query", confidence |-> 50,
              parameters |-> EmptyParameters, locale |-> locale,
              detectedLanguage |-> <<>>,
              metadata |-> << [fallback |-> TRUE, originalQuery |-> dto.query] >>]
        ELSE [validationResult.data[1] EXCEPT
                 !.detectedLanguage = << validationResult.data[1].locale >>]

\* extract after generateJSON has resolved with `response`.
ExtractOutcome(dto, locale, response) ==
    LET validationResult == ValidateIntent(response)
    IN  IF ~validationResult.valid
        THEN CreateFallbackIntent(dto.query, locale)
        ELSE [validationResult.data[1] EXCEPT !.detectedLanguage = << locale >>]

ActionableThreshold == 70    \* 0.7

\* JavaScript truthiness of an optional string / number slot.
TruthyString(v) == v # <<>> /\ v[1] # ""
TruthyNumber(v) == v # <<>> /\ v[1] # 0

\* Variant: the confidence gate is applied only to the types that need slots.
IsActionableTypeFirst(intent) ==
    CASE intent.type = "create_itinerary" ->
           intent.confidence >= ActionableThreshold
             /\ (TruthyString(intent.parameters.destination)
                    \/ TruthyNumber(intent.parameters.duration))
      [] intent.type = "compare_prices" ->
           intent.confidence >= ActionableThreshold
             /\ (TruthyString(intent.parameters.destination)
                    \/ TruthyString(intent.parameters.specificRequests))
      [] intent.type \in {"recommend_restaurant", "recommend_rental",
                          "check_weather", "check_traffic"} ->
           intent.confidence >= ActionableThreshold
             /\ TruthyString(intent.parameters.destination)
      [] OTHER -> TRUE

\* Variant: itinerary creation accepts a destination only, not a duration.
IsActionableDestinationOnly(intent) ==
    IF intent.confidence < ActionableThreshold THEN FALSE
    ELSE CASE intent.type \in {"create_itinerary", "recommend_restaurant",
                               "recommend_rental", "check_weather", "check_traffic"} ->
                TruthyString(intent.parameters.destination)
           [] intent.type = "compare_prices" ->
                TruthyString(intent.parameters.destination)
                    \/ TruthyString(intent.parameters.specificRequests)
           [] OTHER -> TRUE

IsActionable(intent) ==
    IF intent.confidence < ActionableThreshold THEN FALSE
    ELSE CASE intent.type = "create_itinerary" ->
                TruthyString(intent.parameters.destination)
                    \/ TruthyNumber(intent.parameters.duration)
           [] intent.type = "compare_prices" ->
                TruthyString(intent.parameters.destination)
                    \/ TruthyString(intent.parameters.specificRequests)
           [] intent.type \in {"recommend_restaurant", "recommend_rental"} ->
                TruthyString(intent.parameters.destination)
           [] intent.type \in {"check_weather", "check_traffic"} ->
                TruthyString(intent.parameters.destination)
           [] OTHER -> TRUE

(***************************************************************************)
(* Inputs                                                                  *)
(***************************************************************************)
\* UTF-16 code units: 'A', U+3400 (CJK Extension A), U+4E00 and U+9FFF (first
\* and last of the CJK Unified Ideographs block), U+A000 (Yi syllable).
CodeUnits == {65, 13312, 19968, 40959, 40960}

SeqsUpTo(S, n) == UNION { [1..k -> S] : k \in 0..n }

Queries == SeqsUpTo(CodeUnits, MaxQueryLen)

ExtractDtos == [query : Queries, locale : {<<>>, <<"en">>, <<"zh">>}]

SomeParameters ==
    [destination |-> <<"Auckland">>, duration |-> <<3>>, specificRequests |-> <<>>]

\* JSON objects a model may answer an intent request with.
IntentObjects ==
    { [type |-> <<"create_itinerary">>, confidence |-> <<95>>,
       parameters |-> <<SomeParameters>>, locale |-> <<"en">>, extra |-> FALSE],
      [type |-> <<"greeting">>, confidence |-> <<100>>,
       parameters |-> <<EmptyParameters>>, locale |-> <<"zh">>, extra |-> TRUE],
      [type |-> <<"invalid_type">>, confidence |-> <<95>>,
       parameters |-> <<SomeParameters>>, locale |-> <<"en">>, extra |-> FALSE],
      [type |-> <<"check_weather">>, confidence |-> <<150>>,
       parameters |-> <<SomeParameters>>, locale |-> <<"zh">>, extra |-> FALSE],
      [type |-> <<"help">>, confidence |-> <<0>>,
       parameters |-> <<>>, locale |-> <<>>, extra |-> TRUE],
      EmptyIntentObject }

IntentResponses ==
    [kind : {"json"}, value : IntentObjects, usage : UsageReports]
    \cup [kind : {"text", "empty"}, value : {EmptyIntentObject}, usage : UsageReports]

KeyConfigurations == SUBSET LLMProviderTypes

(***************************************************************************)
(* Itinerary schema                                                        *)
(***************************************************************************)
\* A JSON object as the model may produce it for an itinerary.  title stands
\* for the required scalar fields; a day carries its activities; an activity
\* its name, time ("HH:MM" split at ':': <<9, 0>>, or <<9>> for "9"), duration
\* in minutes and optional cost.  The value of '{}' has every key missing.
EmptyItineraryObject == [title |-> <<>>, days |-> <<>>, totalCost |-> <<>>]

\* itinerarySchema.parse: the issues, in the order of the schema's keys.
ItinerarySchemaIssues(obj) ==
    (IF obj.title = <<>> THEN << Issue("title", "Required") >> ELSE <<>>)
    \o
    (IF obj.days = <<>> THEN << Issue("days", "Required") >> ELSE <<>>)

ItinerarySchemaData(obj) ==
    [title |-> obj.title[1], days |-> obj.days[1], totalCost |-> obj.totalCost]

ValidateItinerary(obj) ==
    Validate(ItinerarySchemaIssues(obj),
             IF ItinerarySchemaIssues(obj) = <<>> THEN ItinerarySchemaData(obj)
             ELSE [title |-> "", days |-> <<>>, totalCost |-> <<>>])

(***************************************************************************)
(* Itinerary chain                                                         *)
(***************************************************************************)
DayMs == 86400000     \* 1000 * 60 * 60 * 24

\* new Date(s).getTime() for the date strings of the model, in milliseconds
\* since 2025-12-01T00:00:00Z (a date-only ISO string is UTC midnight).
DateGetTime(s) ==
    CASE s = "2025-12-05"           -> 4 * DayMs
      [] s = "2025-12-05T12:00:00Z" -> 4 * DayMs + 43200000
      [] s = "2025-12-07"           -> 6 * DayMs

\* Math.ceil(a / b) for b > 0
MathCeilDiv(a, b) == -((-a) \div b)

\* validateDateRange with the comparison start > end.
ValidateDateRangeStrictOnly(startDate, endDate, days) ==
    LET start == DateGetTime(startDate)
        end   == DateGetTime(endDate)
    IN  IF start > end
        THEN [ok |-> FALSE, warned |-> FALSE]
        ELSE [ok |-> TRUE, warned |-> MathCeilDiv(end - start, DayMs) # days]

\* validateDateRange that also throws when days differs from the span.
ValidateDateRangeDaysChecked(startDate, endDate, days) ==
    LET start == DateGetTime(startDate)
        end   == DateGetTime(endDate)
    IN  IF start >= end \/ MathCeilDiv(end - start, DayMs) # days
        THEN [ok |-> FALSE, warned |-> FALSE]
        ELSE [ok |-> TRUE, warned |-> FALSE]

\* validateDateRange: ok is FALSE when it throws; warned when it logs the
\* mismatch between days and the span of the dates.
ValidateDateRange(startDate, endDate, days) ==
    LET start == DateGetTime(startDate)
        end   == DateGetTime(endDate)
    IN  IF start >= end
        THEN [ok |-> FALSE, warned |-> FALSE]
        ELSE [ok |-> TRUE, warned |-> MathCeilDiv(end - start, DayMs) # days]

\* const [hours, minutes] = timeStr.split(':').map(Number);
\* return hours * 60 + (minutes || 0)
ParseTime(timeStr) ==
    timeStr[1] * 60 + (IF Len(timeStr) >= 2 THEN timeStr[2] ELSE 0)

\* Array.prototype.sort with the comparator parseTime(a) - parseTime(b): the
\* sort is stable, so an activity is preceded by those of smaller time and by
\* the earlier ones of equal time.
SortRank(acts, i) ==
    1 + Cardinality({ j \in 1..Len(acts) :
                        \/ ParseTime(acts[j].time) < ParseTime(acts[i].time)
                        \/ /\ ParseTime(acts[j].time) = ParseTime(acts[i].time)
                           /\ j < i })

\* A sort by the same comparator that puts later activities of equal time first.
SortActivitiesUnstable(acts) ==
    LET rank(i) ==
            1 + Cardinality({ j \in 1..Len(acts) :
                    \/ ParseTime(acts[j].time) < ParseTime(acts[i].time)
                    \/ /\ ParseTime(acts[j].time) = ParseTime(acts[i].time)
                       /\ j > i })
    IN  [k \in 1..Len(acts) |-> acts[CHOOSE i \in 1..Len(acts) : rank(i) = k]]

SortActivities(acts) ==
    [k \in 1..Len(acts) |-> acts[CHOOSE i \in 1..Len(acts) : SortRank(acts, i) = k]]

RECURSIVE FlattenActivities(_)
\* The activities of all days, in the order of the nested forEach.
FlattenActivities(days) ==
    IF days = <<>> THEN <<>>
    ELSE days[1].activities \o FlattenActivities(Tail(days))

RECURSIVE SumCosts(_)
SumCosts(acts) ==
    IF acts = <<>> THEN 0
    ELSE (IF acts[1].cost # <<>> THEN acts[1].cost[1].amount ELSE 0)
            + SumCosts(Tail(acts))

\* The currency variable after the loops: that of the last activity with a cost.
LastCurrency(acts) ==
    LET withCost == { i \in 1..Len(acts) : acts[i].cost # <<>> }
    IN  IF withCost = {} THEN "NZD"
        ELSE acts[CHOOSE i \in withCost : \A j \in withCost : j <= i].cost[1].currency

\* Math.round of an amount kept in tenths (halves round up).
MathRound(tenths) == ((tenths + 5) \div 10) * 10

\* calculateTotalCost without the Math.round.
CalculateTotalCostUnrounded(itinerary) ==
    LET acts == FlattenActivities(itinerary.days)
    IN  [amount |-> SumCosts(acts), currency |-> LastCurrency(acts)]

CalculateTotalCost(itinerary) ==
    LET acts == FlattenActivities(itinerary.days)
    IN  [amount |-> MathRound(SumCosts(acts)), currency |-> LastCurrency(acts)]

\* optimizeItinerary that computes totalCost whether or not one is set.
OptimizeItineraryRecompute(itinerary) ==
    LET sorted ==
            [itinerary EXCEPT !.days =
                [d \in 1..Len(itinerary.days) |->
                    [itinerary.days[d] EXCEPT !.activities = SortActivities(@)]]]
    IN  [sorted EXCEPT !.totalCost = << CalculateTotalCost(sorted) >>]

OptimizeItinerary(itinerary) ==
    LET sorted ==
            [itinerary EXCEPT !.days =
                [d \in 1..Len(itinerary.days) |->
                    [itinerary.days[d] EXCEPT !.activities = SortActivities(@)]]]
    IN  IF sorted.totalCost = <<>>
        THEN [sorted EXCEPT !.totalCost = << CalculateTotalCost(sorted) >>]
        ELSE sorted

\* The calls optimizeItinerary makes: one sort per day, then calculateTotalCost
\* when totalCost is not set.
OptimizeCalls(itinerary) ==
    [d \in 1..Len(itinerary.days) |-> "sort"]
        \o (IF itinerary.totalCost = <<>> THEN << "calculateTotalCost" >> ELSE <<>>)

\* generate that post-processes whatever validation said.
GenerateOutcomeLenient(response) ==
    LET validationResult == ValidateItinerary(response)
        data == IF validationResult.valid THEN validationResult.data[1]
                ELSE [title |-> "", days |-> <<>>, totalCost |-> <<>>]
    IN  [ok |-> TRUE,
         itinerary |-> << OptimizeItinerary(data) >>,
         calls |-> << "validate" >> \o OptimizeCalls(data),
         error |-> NoError]

\* generate after generateJSON has resolved with `response`.
GenerateOutcome(response) ==
    LET validationResult == ValidateItinerary(response)
    IN  IF ~validationResult.valid
        THEN [ok |-> FALSE, itinerary |-> <<>>, calls |-> << "validate" >>,
              error |-> MkError("Invalid itinerary response", "", "",
                                validationResult.errors)]
        ELSE [ok |-> TRUE,
              itinerary |-> << OptimizeItinerary(validationResult.data[1]) >>,
              calls |-> << "validate" >> \o OptimizeCalls(validationResult.data[1]),
              error |-> NoError]

\* The getTemplate calls of generate, in order.
GenerateTemplates(locale) == << <<"system", locale>>, <<"itinerary", locale>> >>

(***************************************************************************)
(* Inputs of the itinerary chain                                           *)
(***************************************************************************)
DateStrings == {"2025-12-05", "2025-12-05T12:00:00Z", "2025-12-07"}

\* days = 2 is the span of 12-05..12-07 (and of 12-05T12:00Z..12-07, rounded
\* up) and is not the span of 12-05..12-05T12:00Z.
\* days = 30 is the span of none of the date pairs.
GenerateDtos ==
    [startDate : DateStrings, endDate : DateStrings, days : {2},
     locale : {<<>>, <<"zh">>}]
    \cup [startDate : DateStrings, endDate : DateStrings, days : {30},
          locale : {<<>>}]

Cost(amount, currency) == [amount |-> amount, currency |-> currency]

ActivityPool ==
    { [name |-> "Sky Tower", time |-> << 9, 0 >>,  duration |-> 60,  cost |-> <<>>],
      [name |-> "Ferry",     time |-> << 8, 45 >>, duration |-> 300,
       cost |-> << Cost(105, "USD") >>],
      [name |-> "Museum",    time |-> << 9 >>,     duration |-> 120,
       cost |-> << Cost(204, "NZD") >>] }

\* Activity lists of a day: no activity twice.
DayActivityLists ==
    { acts \in SeqsUpTo(ActivityPool, MaxActs) :
        \A i, j \in 1..Len(acts) : i # j => acts[i] # acts[j] }

\* Itineraries of at most MaxDays days and MaxActs activities in all.
DayLists ==
    { ds \in SeqsUpTo([activities : DayActivityLists], MaxDays) :
        Len(FlattenActivities(ds)) <= MaxActs }

ItineraryObjects ==
    [title : {<< "Trip" >>}, days : { << ds >> : ds \in DayLists },
     totalCost : {<<>>, << Cost(5000, "NZD") >>}]
    \cup [title : {<<>>}, days : { << ds >> : ds \in {<<>>} }, totalCost : {<<>>}]
    \cup [title : {<< "Trip" >>, <<>>}, days : {<<>>}, totalCost : {<<>>}]

ItineraryResponses ==
    [kind : {"json"}, value : ItineraryObjects, usage : UsageReports]
    \cup [kind : {"text", "empty"}, value : {EmptyItineraryObject},
          usage : UsageReports]

NoGenerateDto ==
    [startDate |-> "2025-12-05", endDate |-> "2025-12-05", days |-> 1, locale |-> <<>>]

InitGenerate ==
    /\ itPc = "idle"
    /\ itDto = NoGenerateDto
    /\ itTemplates = <<>>
    /\ itWarned = FALSE
    /\ itCalls = <<>>
    /\ itResponse = <<>>
    /\ itResult = <<>>
    /\ itError = NoError

(***************************************************************************)
(* ItineraryChain.estimateQuality and getStatistics                        *)
(***************************************************************************)
RECURSIVE SumSeq(_)
\* reduce((a, b) => a + b, 0) over a sequence of numbers
SumSeq(numbers) ==
    IF numbers = <<>> THEN 0 ELSE numbers[1] + SumSeq(Tail(numbers))

\* variance > limit, for activitiesPerDay = counts: with avg = S/n the code
\* compares sum((c - avg)^2)/n, that is sum((n*c - S)^2)/n^3; with no day both
\* divisions are 0/0 and the comparison with NaN is false.
VarianceExceeds(counts, limit) ==
    LET n == Len(counts)
        S == SumSeq(counts)
    IN  /\ n > 0
        /\ SumSeq([d \in 1..n |-> (n * counts[d] - S) * (n * counts[d] - S)])
              > limit * n * n * n

\* The deduction of one day for its total activity duration.
DurationDeduction(day) ==
    LET totalDuration == SumSeq([k \in 1..Len(day.activities) |->
                                    day.activities[k].duration])
    IN  IF totalDuration > 720 THEN 15
        ELSE IF totalDuration < 240 THEN 10
        ELSE 0

\* d.meals && (d.meals.lunch || d.meals.dinner)
MealsPlanned(day) ==
    \/ (day.meals.lunch # <<>> /\ day.meals.lunch[1] # "")
    \/ (day.meals.dinner # <<>> /\ day.meals.dinner[1] # "")

MathMax(a, b) == IF a >= b THEN a ELSE b
MathMin(a, b) == IF a <= b THEN a ELSE b

\* estimateQuality without the final Math.max(0, Math.min(100, score)).
EstimateQualityUnclamped(itinerary) ==
    LET days == itinerary.days
        n    == Len(days)
        mealsPlanned == Cardinality({ d \in 1..n : MealsPlanned(days[d]) })
    IN  100
          - (IF VarianceExceeds([d \in 1..n |-> Len(days[d].activities)], 4)
             THEN 10 ELSE 0)
          - SumSeq([d \in 1..n |-> DurationDeduction(days[d])])
          - (IF mealsPlanned * 10 < n * 8 THEN 5 ELSE 0)

\* estimateQuality that deducts 15 for a day at 720 minutes or more.
EstimateQualityOverAt720(itinerary) ==
    LET days == itinerary.days
        n    == Len(days)
        mealsPlanned == Cardinality({ d \in 1..n : MealsPlanned(days[d]) })
        total(d) == SumSeq([k \in 1..Len(days[d].activities) |->
                               days[d].activities[k].duration])
        score ==
          100
          - (IF VarianceExceeds([d \in 1..n |-> Len(days[d].activities)], 4)
             THEN 10 ELSE 0)
          - SumSeq([d \in 1..n |-> IF total(d) >= 720 THEN 15
                                   ELSE IF total(d) < 240 THEN 10 ELSE 0])
          - (IF mealsPlanned * 10 < n * 8 THEN 5 ELSE 0)
    IN  MathMax(0, MathMin(100, score))

\* estimateQuality: the score returned.  mealsPlanned < days.length * 0.8 is
\* compared in tenths.
EstimateQuality(itinerary) ==
    LET days == itinerary.days
        n    == Len(days)
        mealsPlanned == Cardinality({ d \in 1..n : MealsPlanned(days[d]) })
        score ==
          100
          - (IF VarianceExceeds([d \in 1..n |-> Len(days[d].activities)], 4)
             THEN 10 ELSE 0)
          - SumSeq([d \in 1..n |-> DurationDeduction(days[d])])
          - (IF mealsPlanned * 10 < n * 8 THEN 5 ELSE 0)
    IN  MathMax(0, MathMin(100, score))

\* A call of estimateQuality that consumes the days it has scored.
EstimateQualityCallConsuming(itinerary) ==
    [score |-> EstimateQuality(itinerary),
     itinerary |-> [itinerary EXCEPT !.days = <<>>]]

\* A call of estimateQuality: the score returned and the argument object as
\* the call leaves it (the method assigns to locals only).
EstimateQualityCall(itinerary) ==
    [score |-> EstimateQuality(itinerary), itinerary |-> itinerary]

\* A JavaScript number that may be NaN or infinite.
JsNumber(value) == [kind |-> "finite", value |-> value]
JsNaN == [kind |-> "NaN", value |-> 0]
JsInfinity == [kind |-> "Infinity", value |-> 0]
JsNegInfinity == [kind |-> "-Infinity", value |-> 0]

\* Math.round(a / b) with halves rounded down.
MathRoundQuotientHalfDown(a, b) ==
    IF b = 0
    THEN (IF a = 0 THEN JsNaN ELSE IF a > 0 THEN JsInfinity ELSE JsNegInfinity)
    ELSE JsNumber(-((b - 2 * a) \div (2 * b)))

\* Math.round(a / b) for b >= 0: 0/0 is NaN, x/0 is +-Infinity, and Math.round
\* is floor(x + 0.5).
MathRoundQuotient(a, b) ==
    IF b = 0
    THEN (IF a = 0 THEN JsNaN ELSE IF a > 0 THEN JsInfinity ELSE JsNegInfinity)
    ELSE JsNumber((2 * a + b) \div (2 * b))

CountActivities(itinerary) ==
    SumSeq([d \in 1..Len(itinerary.days) |-> Len(itinerary.days[d].activities)])

\* getStatistics.  Money is in tenths, so the rounded daily budget r units is
\* kept as 10 * r.
GetStatistics(itinerary) ==
    LET totalActivities == CountActivities(itinerary)
        totalCost == IF itinerary.totalCost # <<>>
                     THEN itinerary.totalCost[1].amount ELSE 0
        budget == MathRoundQuotient(totalCost, 10 * Len(itinerary.days))
    IN  [totalDays |-> Len(itinerary.days),
         totalActivities |-> totalActivities,
         totalCost |-> totalCost,
         avgActivitiesPerDay |->
             MathRoundQuotient(totalActivities, Len(itinerary.days)),
         avgDailyBudget |-> [budget EXCEPT !.value = 10 * @]]

(***************************************************************************)
(* Inputs of estimateQuality and getStatistics                             *)
(***************************************************************************)
Timed(duration) == [duration |-> duration]

Meals(lunch, dinner) == [lunch |-> lunch, dinner |-> dinner]

\* Ten one-hour activities and no meals.
PackedDay == [activities |-> [k \in 1..10 |-> Timed(60)], meals |-> Meals(<<>>, <<>>)]
\* One one-hour activity and no meals.
SparseDay == [activities |-> << Timed(60) >>, meals |-> Meals(<<>>, <<>>)]
\* Two activities, 720 minutes in all, lunch set.
FullDay == [activities |-> << Timed(240), Timed(480) >>,
            meals |-> Meals(<< "Cafe" >>, <<>>)]
\* Two activities, 240 minutes in all, dinner set and an empty lunch.
LightDay == [activities |-> << Timed(120), Timed(120) >>,
             meals |-> Meals(<< "" >>, << "Bistro" >>)]
\* One activity of 721 minutes, an empty lunch and no dinner.
OverDay == [activities |-> << Timed(721) >>, meals |-> Meals(<< "" >>, <<>>)]

InspectedDayPool == { PackedDay, SparseDay, FullDay, LightDay, OverDay }

RECURSIVE RepeatDays(_, _)
\* k copies of a day pattern, one after another.
RepeatDays(days, k) == IF k = 0 THEN <<>> ELSE days \o RepeatDays(days, k - 1)

InspectedItineraries ==
    [days : { RepeatDays(ds, k) : ds \in SeqsUpTo(InspectedDayPool, MaxBaseDays),
                                  k \in 1..MaxRepeat },
     totalCost : {<<>>, << Cost(10010, "NZD") >>}]

NoItinerary == [days |-> <<>>, totalCost |-> <<>>]

InitInspectIdle ==
    /\ qaItinerary = NoItinerary
    /\ eqScores = <<>>
    /\ gsResult = <<>>

(***************************************************************************)
(* Calls made directly on a provider: complete, chat, generateJSON         *)
(***************************************************************************)
ProviderMethods == {"complete", "chat", "generateJSON"}

\* Token usage the backend may report for a call.
ProviderUsageReports == { [prompt |-> 12, completion |-> 7],
                          [prompt |-> 5,  completion |-> 3] }

ProviderResponses ==
    [kind : {"json", "text", "empty"}, value : {EmptyIntentObject},
     usage : ProviderUsageReports]

NoUsage == [prompt |-> 0, completion |-> 0]

ProviderCall(method, pc, usage) == [method |-> method, pc |-> pc, usage |-> usage]

\* complete / chat once the backend has answered: formatResponse tracks the
\* usage and the call returns, whatever the content.
FormatResponse(inst, model, raw, stats) ==
    [ok |-> TRUE,
     stats |-> TrackUsage(stats, inst, model, raw.usage.prompt, raw.usage.completion)]

\* What a call of `method` does once the backend has answered.
ProviderContinue(method, inst, model, raw, stats) ==
    IF method = "generateJSON"
    THEN LET gen == GenerateJSONContinue(inst, model, raw, EmptyIntentObject, stats)
         IN  [ok |-> gen.ok, stats |-> gen.stats]
    ELSE FormatResponse(inst, model, raw, stats)

InitProviderIdle ==
    /\ pvInst = "OpenAIProvider"
    /\ pvCalls = <<>>
    /\ pvOrder = <<>>
    /\ pvBase = ZeroStats
    /\ pvResetSeen = FALSE
    /\ pvSucceeded = 0

(***************************************************************************)
(* AiService: registerProvider, getProvider and the delegating calls       *)
(***************************************************************************)
\* aiServiceFactory's registerProvider calls, in the order it makes them.
FactoryRegistrations(keys) ==
    (IF "openai" \in keys THEN << <<"openai", "OpenAIProvider">> >> ELSE <<>>)
        \o (IF "anthropic" \in keys
            THEN << <<"anthropic", "AnthropicProvider">> >> ELSE <<>>)

\* A registration that keeps the instance already registered under the type.
ProvidersSetKeepFirst(map, type, provider) ==
    IF map[type] = NoProvider THEN [map EXCEPT ![type] = provider] ELSE map

\* registerProvider: this.providers.set(type, provider).
ProvidersSet(map, type, provider) == [map EXCEPT ![type] = provider]

\* getProvider as a call: the instance returned, or the Error thrown.
GetProviderCall(type) ==
    LET found == GetProvider(type)
    IN  [type     |-> type,
         ok       |-> found.instance # NoProvider,
         instance |-> found.instance,
         error    |-> IF found.instance # NoProvider THEN NoError
                      ELSE MkError("Provider not registered", found.type, "", <<>>)]

\* Partial<LLMOptions> as given by a caller: each key may be missing; a key
\* may also be present with the value undefined.  An omitted options
\* argument spreads like the object with no key.
PartialOptions ==
    [model : {<<>>, <<"gpt-4o">>, <<"undefined">>},
     temperature : {<<>>, <<"0.2">>}]

\* A merge in which the service's default model overrides the caller's.
MergeOptionsDefaultWins(model, options) ==
    [model |-> model, temperature |-> options.temperature]

\* fullOptions = { model: this.defaultModel, ...options }.
MergeOptions(model, options) ==
    [model |-> IF options.model # <<>> THEN options.model[1] ELSE model,
     temperature |-> options.temperature]

ServiceCalls ==
    [method : ProviderMethods, options : PartialOptions,
     provider : {<<>>} \cup { <<t>> : t \in LLMProviderTypes }]

NoServiceCall ==
    [method |-> "complete", options |-> [model |-> <<>>, temperature |-> <<>>],
     provider |-> <<>>]

\* Backend answers to a delegated call.
ServiceResponses ==
    [kind : {"json", "text", "empty"}, value : {EmptyIntentObject},
     usage : UsageReports]

InitServiceIdle ==
    /\ regLog = FactoryRegistrations(apiKeys)
    /\ gpCall = <<>>
    /\ svPc = "idle"
    /\ svCall = NoServiceCall
    /\ svProviderCalls = <<>>
    /\ svProviderOutcome = <<>>
    /\ svOutcome = <<>>

(***************************************************************************)
(* stream(): the backend's events and what the generator yields for them   *)
(***************************************************************************)
\* Text carried by a delta.
StreamTexts == {"", "Hi"}

\* An event of the Anthropic message stream.  delta is read only of a
\* content_block_delta.
AnthropicEvent(type, deltaType, text) ==
    [backend |-> "anthropic", type |-> type,
     delta |-> [type |-> deltaType, text |-> text]]

AnthropicEvents ==
    { AnthropicEvent(t, "", "") :
        t \in {"message_start", "content_block_start", "content_block_stop",
               "message_delta", "message_stop"} }
    \cup { AnthropicEvent("content_block_delta", "text_delta", x) : x \in StreamTexts }
    \cup { AnthropicEvent("content_block_delta", "input_json_delta", "") }

\* A chunk of the OpenAI completion stream: choices[0] with delta.content
\* (optional) and finish_reason ("null" for null).
OpenAIChunk(content, finishReason) ==
    [backend |-> "openai",
     choices |-> << [delta |-> [content |-> content],
                     finish_reason |-> finishReason] >>]

OpenAIChunks ==
    { OpenAIChunk(c, f) : c \in {<<>>} \cup { <<x>> : x \in StreamTexts },
                          f \in {"null", "stop", "length"} }

\* The events of a backend before the last one of its protocol.
StreamBodyEvents(inst) ==
    IF inst = "AnthropicProvider"
    THEN { e \in AnthropicEvents : e.type # "message_stop" }
    ELSE { c \in OpenAIChunks : c.choices[1].finish_reason = "null" }

\* The last event of a backend's protocol.
StreamFinalEvents(inst) ==
    IF inst = "AnthropicProvider"
    THEN { e \in AnthropicEvents : e.type = "message_stop" }
    ELSE { c \in OpenAIChunks : /\ c.choices[1].finish_reason # "null"
                                /\ c.choices[1].delta.content = <<>> }

\* AnthropicProvider.stream: the body of the for-await loop.
AnthropicYield(event) ==
    IF event.type = "content_block_delta"
    THEN (IF event.delta.type = "text_delta"
          THEN << [content |-> event.delta.text, isComplete |-> FALSE] >>
          ELSE <<>>)
    ELSE IF event.type = "message_stop"
         THEN << [content |-> "", isComplete |-> TRUE] >>
         ELSE <<>>

\* A loop body that takes an element without text for the end of the stream.
OpenAIYieldEmptyIsComplete(chunk) ==
    LET delta == IF chunk.choices # <<>> /\ chunk.choices[1].delta.content # <<>>
                 THEN chunk.choices[1].delta.content[1] ELSE ""
    IN  << [content |-> delta, isComplete |-> (delta = "")] >>

\* OpenAIProvider.stream: the body of the for-await loop.
\* chunk.choices[0]?.finish_reason is undefined, hence not null, when the
\* chunk has no choice.
OpenAIYield(chunk) ==
    LET delta == IF chunk.choices # <<>> /\ chunk.choices[1].delta.content # <<>>
                 THEN chunk.choices[1].delta.content[1] ELSE ""
        isComplete == ~ (chunk.choices # <<>>
                         /\ chunk.choices[1].finish_reason = "null")
    IN  << [content |-> delta, isComplete |-> isComplete] >>

StreamYield(inst, event) ==
    IF inst = "AnthropicProvider" THEN AnthropicYield(event) ELSE OpenAIYield(event)

InitStreamIdle ==
    /\ smInst = "OpenAIProvider"
    /\ smPc = "idle"
    /\ smConsumed = 0
    /\ smChunks = <<>>

(***************************************************************************)
(* PromptTemplateService.  The content of the file of a name in a locale   *)
(* is the pair <<locale, name>>; a hard-coded text is <<"fallback", ...>>. *)
(***************************************************************************)
\* Template names: one with a hard-coded fallback, one without.
TemplateNames == {"intent", "custom"}

TemplateFiles == Locales \X TemplateNames

NoTemplates == [n \in TemplateNames |-> <<>>]

\* loadTemplates: nothing is loaded unless both directories exist; the names
\* are those of the .txt files of en/, and the zh text of a name without a
\* zh file is its en text.  Entries of other names are left as they are.
LoadTemplates(dirs, files, templates) ==
    IF ~ ({"en", "zh"} \subseteq dirs)
    THEN templates
    ELSE [n \in TemplateNames |->
            IF << "en", n >> \in files
            THEN << [en |-> << "en", n >>,
                     zh |-> IF << "zh", n >> \in files
                            THEN << "zh", n >> ELSE << "en", n >>] >>
            ELSE templates[n]]

\* getFallbackTemplate: the table of hard-coded texts, else the last resort.
GetFallbackTemplate(name, locale) ==
    IF name \in {"system", "intent", "itinerary", "price-comparison", "restaurant"}
    THEN << "fallback", name, locale >>
    ELSE << "fallback", "", locale >>

GetTemplate(templates, name, locale) ==
    IF templates[name] = <<>>
    THEN GetFallbackTemplate(name, locale)
    ELSE templates[name][1][locale]

InitTemplatesIdle ==
    /\ ptDirs = Locales
    /\ ptFiles = TemplateFiles
    /\ ptTemplates = LoadTemplates(ptDirs, ptFiles, NoTemplates)
    /\ ptSeen = << ptDirs, ptFiles >>
    /\ ptGet = <<>>

(***************************************************************************)
(* SchemaValidator.validate and validateOrThrow as calls.  The data passed *)
(* in is optional (absent: undefined); schema.parse either returns the     *)
(* parsed value, throws a ZodError carrying its issues (a path array and a *)
(* message each), or throws something else.                                *)
(***************************************************************************)
ZodIssue(path, message) == [path |-> path, message |-> message]

\* Objects given to itineraryActivitySchema: name stands for the bilingual
\* fields, the other fields are valid.
ActivityObjects ==
    { [name |-> <<>>],
      [name |-> << [en |-> <<>>, zh |-> << "x" >>] >>],
      [name |-> << [en |-> << "x" >>, zh |-> << "x" >>] >>] }

\* A schema and a value to validate against it.  "any" is the schema
\* createSchemaFromJSON returns; "none" is a schema whose parse throws
\* something other than a ZodError (a missing schema, a schema with an
\* asynchronous refinement).
ValidateInputs ==
    ({"intent"} \X ({<<>>} \cup { << o >> : o \in IntentObjects }))
    \cup ({"activity"} \X ({<<>>} \cup { << o >> : o \in ActivityObjects }))
    \cup ({"any", "none"} \X {<<>>, << EmptyIntentObject >>})

\* schema.parse(data): [kind |-> "returned", value], [kind |-> "ZodError",
\* issues] or [kind |-> "Error"].
SchemaParse(schema, data) ==
    CASE schema = "any" ->
           [kind |-> "returned", value |-> data, issues |-> <<>>]
      [] schema = "none" ->
           [kind |-> "Error", value |-> <<>>, issues |-> <<>>]
      [] data = <<>> ->
           [kind |-> "ZodError", value |-> <<>>,
            issues |-> << ZodIssue(<<>>, "Required") >>]
      [] schema = "intent" ->
           LET issues == IntentSchemaIssues(data[1])
           IN  IF issues = <<>>
               THEN [kind |-> "returned", value |-> << IntentSchemaData(data[1]) >>,
                     issues |-> <<>>]
               ELSE [kind |-> "ZodError", value |-> <<>>,
                     issues |-> [k \in 1..Len(issues) |->
                                   ZodIssue(<< issues[k].path >>, issues[k].message)]]
      [] OTHER ->
           LET obj == data[1]
           IN  IF obj.name = <<>>
               THEN [kind |-> "ZodError", value |-> <<>>,
                     issues |-> << ZodIssue(<< "name" >>, "Required") >>]
               ELSE IF obj.name[1].en = <<>>
                    THEN [kind |-> "ZodError", value |-> <<>>,
                          issues |-> << ZodIssue(<< "name", "en" >>, "Required") >>]
                    ELSE [kind |-> "returned", value |-> data, issues |-> <<>>]

\* Array.prototype.join('.') of a path.
RECURSIVE PathJoin(_)
PathJoin(path) ==
    IF path = <<>> THEN ""
    ELSE IF Len(path) = 1 THEN path[1]
    ELSE path[1] \o "." \o PathJoin(Tail(path))

\* A validate that lets an error other than a ZodError escape.
ValidateCallRethrowing(schema, data) ==
    LET parsed == SchemaParse(schema, data)
    IN  CASE parsed.kind = "returned" ->
               [threw |-> FALSE,
                result |-> [valid |-> TRUE, data |-> << parsed.value >>,
                            errors |-> <<>>]]
          [] parsed.kind = "ZodError" ->
               [threw |-> FALSE,
                result |-> [valid |-> FALSE, data |-> <<>>,
                            errors |-> << [k \in 1..Len(parsed.issues) |->
                                             Issue(PathJoin(parsed.issues[k].path),
                                                   parsed.issues[k].message)] >>]]
          [] OTHER ->
               [threw |-> TRUE,
                result |-> [valid |-> FALSE, data |-> <<>>, errors |-> <<>>]]

\* SchemaValidator.validate: the ValidationResult (the keys data and errors
\* are optional: <<>> is a missing key) and whether the call threw.
ValidateCall(schema, data) ==
    LET parsed == SchemaParse(schema, data)
    IN  CASE parsed.kind = "returned" ->
               [threw |-> FALSE,
                result |-> [valid |-> TRUE, data |-> << parsed.value >>,
                            errors |-> <<>>]]
          [] parsed.kind = "ZodError" ->
               [threw |-> FALSE,
                result |-> [valid |-> FALSE, data |-> <<>>,
                            errors |-> << [k \in 1..Len(parsed.issues) |->
                                             Issue(PathJoin(parsed.issues[k].path),
                                                   parsed.issues[k].message)] >>]]
          [] OTHER ->
               [threw |-> FALSE,
                result |-> [valid |-> FALSE, data |-> <<>>,
                            errors |-> << << Issue("unknown", "Validation failed") >> >>]]

\* SchemaValidator.validateOrThrow: throws when validate's result is not
\* valid, returns result.data otherwise.
ValidateOrThrowCall(schema, data) ==
    LET call == ValidateCall(schema, data)
    IN  [threw |-> ~ call.result.valid, result |-> call.result]

InitValidateIdle ==
    /\ vlCalls = <<>>

(***************************************************************************)
(* The messages of a provider call.  The content of a message is a         *)
(* sequence of pieces of text (<<>> is the empty string); appending to a   *)
(* string appends a piece.                                                 *)
(***************************************************************************)
MessageRoles == {"system", "user", "assistant", "function"}

\* The text of the k-th message of a conversation, when it is not empty.
MessageTexts == << "m1", "m2", "m3" >>

ChatMessage(role, content) == [role |-> role, content |-> content]

\* The conversations of n messages.
Conversations(n) ==
    { [k \in 1..n |-> ChatMessage(roles[k],
                                   IF texts[k] THEN << MessageTexts[k] >> ELSE <<>>)] :
        roles \in [1..n -> MessageRoles], texts \in [1..n -> BOOLEAN] }

\* The instruction generateJSON appends to the last message.
JsonInstruction(inst) ==
    IF inst = "AnthropicProvider"
    THEN "\n\nRespond with valid JSON only. Do not include any other text."
    ELSE "\n\nRespond with valid JSON only."

\* lastMessage.content += instruction, on the array given.
AppendToLast(messages, piece) ==
    [messages EXCEPT ![Len(messages)].content = @ \o << piece >>]

\* AnthropicProvider.convertMessages: the loop, from the state (system,
\* anthropicMessages) reached so far.  system is optional (undefined at
\* first); a string is truthy when it is not empty.
RECURSIVE ConvertMessagesFrom(_, _, _)
ConvertMessagesFrom(messages, system, anthropicMessages) ==
    IF messages = <<>>
    THEN [system |-> system, anthropicMessages |-> anthropicMessages]
    ELSE LET msg == Head(messages)
         IN  IF msg.role = "system"
             THEN ConvertMessagesFrom(
                      Tail(messages),
                      IF system # <<>> /\ system[1] # <<>>
                      THEN << system[1] \o << "\n\n" >> \o msg.content >>
                      ELSE << msg.content >>,
                      anthropicMessages)
             ELSE IF msg.role \in {"user", "assistant"}
                  THEN ConvertMessagesFrom(
                           Tail(messages), system,
                           Append(anthropicMessages,
                                  ChatMessage(msg.role, msg.content)))
                  ELSE ConvertMessagesFrom(Tail(messages), system, anthropicMessages)

ConvertMessages(messages) == ConvertMessagesFrom(messages, <<>>, <<>>)

\* The request parameters built from the messages: system is set only when
\* it is truthy (Anthropic); OpenAI is sent a copy of every message.
RequestOf(inst, messages) ==
    IF inst = "AnthropicProvider"
    THEN LET converted == ConvertMessages(messages)
         IN  [system |-> IF converted.system # <<>> /\ converted.system[1] # <<>>
                         THEN converted.system ELSE <<>>,
              messages |-> converted.anthropicMessages]
    ELSE [system |-> <<>>,
          messages |-> [k \in 1..Len(messages) |->
                           ChatMessage(messages[k].role, messages[k].content)]]

\* generateJSON up to the await of the backend call, on a non-empty array:
\* the caller's array after the call has started, and the request.
\* AnthropicProvider copies the array, not the messages ([...messages]), so
\* the += writes to the caller's last message; OpenAIProvider builds new
\* message objects (messages.map) and writes to the last of those.
GenerateJSONRequest(inst, messages) ==
    IF inst = "AnthropicProvider"
    THEN [caller  |-> AppendToLast(messages, JsonInstruction(inst)),
          request |-> RequestOf(inst, AppendToLast(messages, JsonInstruction(inst)))]
    ELSE [caller  |-> messages,
          request |-> RequestOf(inst, AppendToLast(messages, JsonInstruction(inst)))]

InitMessagesIdle ==
    /\ cmInst = "OpenAIProvider"
    /\ cmMessages = <<>>
    /\ cmOriginal = <<>>
    /\ cmPc = "idle"
    /\ cmJsonCalls = 0
    /\ cmDispatched = <<>>

InitPartsIdle ==
    /\ InitServiceIdle
    /\ InitStreamIdle
    /\ InitTemplatesIdle
    /\ InitValidateIdle
    /\ InitMessagesIdle

(***************************************************************************)
(* Initial states                                                          *)
(***************************************************************************)
\* ConfigService, then aiServiceFactory: new AiService (initializeDefaults)
\* and the registration of a provider per configured key.
InitAiService ==
    /\ apiKeys \in KeyConfigurations
    /\ providers = FactoryProviders(apiKeys)
    /\ defaultProvider = InitialDefaultProvider(apiKeys)
    /\ defaultModel = InitialDefaultModel(defaultProvider)
    /\ usageStats = [i \in ProviderInstances |-> ZeroStats]

NoDto == [query |-> <<>>, locale |-> <<>>]

InitExtract ==
    /\ exPc = "idle"
    /\ exDto = NoDto
    /\ exLocale = <<>>
    /\ exTemplates = <<>>
    /\ exRaw = <<>>
    /\ exResponse = <<>>
    /\ exResult = <<>>
    /\ exError = NoError

NoIntent == CreateFallbackIntent(<<>>, "en")

InitActionableIdle ==
    /\ iaPc = "done"
    /\ iaIntent = NoIntent
    /\ iaResult = FALSE

InitBatch ==
    /\ bxPc = "idle"
    /\ bxQueries = <<>>
    /\ bxItems = <<>>
    /\ bxOrder = <<>>
    /\ bxResults = <<>>
    /\ bxError = NoError

Init ==
    /\ InitAiService
    /\ InitExtract
    /\ InitActionableIdle
    /\ InitBatch
    /\ InitGenerate
    /\ InitInspectIdle
    /\ InitProviderIdle
    /\ InitPartsIdle

(***************************************************************************)
(* IntentChain.extract, one invocation                                     *)
(***************************************************************************)
\* extract up to the await of the backend call: locale, templates, messages,
\* AiService.generateJSON (getProvider), provider.generateJSON up to the
\* request.  An unregistered provider makes getProvider throw, which extract
\* logs and rethrows.
ExtractStart(dto) ==
    /\ exPc = "idle"
    /\ LET locale == ResolveLocale(dto)
           found  == GetProvider(<<>>)
       IN  /\ found.instance # NoProvider
                => usageStats[found.instance].requestCount < MaxRequests
           /\ exDto' = dto
           /\ exLocale' = << locale >>
           /\ exTemplates' = ExtractTemplates(locale)
           /\ IF found.instance = NoProvider
              THEN /\ exPc' = "failed"
                   /\ exError' = MkError("Provider not registered", found.type, "", <<>>)
              ELSE /\ exPc' = "awaiting"
                   /\ exError' = NoError
    /\ UNCHANGED << exRaw, exResponse, exResult, aiVars, qaVars, pvVars, partVars, usageStats, iaVars, bxVars, itVars >>

\* The backend answers: the provider tracks usage and parses; extract then
\* validates and returns the intent or the fallback intent.
ExtractRespond(raw) ==
    /\ exPc = "awaiting"
    /\ LET inst == GetProvider(<<>>).instance
           gen  == GenerateJSONContinue(inst, defaultModel, raw, EmptyIntentObject,
                                        usageStats[inst])
       IN  /\ usageStats' = [usageStats EXCEPT ![inst] = gen.stats]
           /\ exRaw' = << raw >>
           /\ IF gen.ok
              THEN /\ exPc' = "returned"
                   /\ exResponse' = << gen.value >>
                   /\ exResult' = << ExtractOutcome(exDto, exLocale[1], gen.value) >>
                   /\ exError' = NoError
              ELSE /\ exPc' = "failed"
                   /\ exResponse' = <<>>
                   /\ exResult' = <<>>
                   /\ exError' = gen.error
    /\ UNCHANGED << exDto, exLocale, exTemplates, aiVars, qaVars, pvVars, partVars, iaVars, bxVars, itVars >>

\* The backend call rejects: handleError rethrows, extract logs and rethrows.
ExtractTransportFail ==
    /\ exPc = "awaiting"
    /\ exPc' = "failed"
    /\ exError' = GenerateJSONTransportError(GetProvider(<<>>).instance)
    /\ UNCHANGED << exDto, exLocale, exTemplates, exRaw, exResponse, exResult,
                    aiVars, qaVars, pvVars, partVars, usageStats, iaVars, bxVars, itVars >>

\* The invocation is over; the chain is ready for the next one.
ExtractDone ==
    /\ exPc \in {"returned", "failed"}
    /\ exPc' = "idle"
    /\ exDto' = NoDto
    /\ exLocale' = <<>>
    /\ exTemplates' = <<>>
    /\ exRaw' = <<>>
    /\ exResponse' = <<>>
    /\ exResult' = <<>>
    /\ exError' = NoError
    /\ UNCHANGED << aiVars, qaVars, pvVars, partVars, usageStats, iaVars, bxVars, itVars >>

NextExtract ==
    \/ \E dto \in ExtractDtos : ExtractStart(dto)
    \/ \E raw \in IntentResponses : ExtractRespond(raw)
    \/ ExtractTransportFail
    \/ ExtractDone
    \/ ResetAllUsageStats

SpecExtract == Init /\ [][NextExtract]_vars

(***************************************************************************)
(* IntentChain.isActionable, applied to one intent                         *)
(***************************************************************************)
ActionableConfidences == {0, 50, 69, 70, 71, 100}

ActionableParameters ==
    [destination : {<<>>, <<"">>, <<"Auckland">>},
     duration : {<<>>, <<0>>, <<3>>},
     specificRequests : {<<>>, <<"cheapest">>}]

ActionableIntents ==
    [type : IntentTypes, confidence : ActionableConfidences,
     parameters : ActionableParameters, locale : Locales,
     detectedLanguage : {<<>>}, metadata : {<<>>}]

InitActionable ==
    /\ InitAiService
    /\ InitExtract
    /\ iaPc = "input"
    /\ iaIntent \in ActionableIntents
    /\ iaResult = FALSE
    /\ InitBatch
    /\ InitGenerate
    /\ InitInspectIdle
    /\ InitProviderIdle
    /\ InitPartsIdle

ApplyIsActionable ==
    /\ iaPc = "input"
    /\ iaPc' = "done"
    /\ iaResult' = IsActionable(iaIntent)
    /\ UNCHANGED << iaIntent, aiVars, qaVars, pvVars, partVars, usageStats, exVars, bxVars, itVars >>

NextActionable == ApplyIsActionable

SpecActionable == InitActionable /\ [][NextActionable]_vars

(***************************************************************************)
(* IntentChain.extractBatch: Promise.all over one extract call per query   *)
(***************************************************************************)
BatchDtos ==
    { [query |-> << 65 >>,        locale |-> <<>>],
      [query |-> << 19968, 65 >>, locale |-> <<>>],
      [query |-> << 65 >>,        locale |-> << "zh" >>] }

BatchQueries == SeqsUpTo(BatchDtos, MaxBatch)

BatchResponses ==
    { r \in IntentResponses :
        \/ r.kind = "text"
        \/ r.kind = "json" /\ r.value.type \in {<<"create_itinerary">>, <<"greeting">>,
                                                <<"invalid_type">>} }

\* One extract call of the batch.
BatchItem(pc, locale, response, result, error) ==
    [pc |-> pc, locale |-> locale, response |-> response, result |-> result,
     error |-> error]

\* queries.map(query => this.extract(query)): every call runs up to its await.
BatchStartItem(dto) ==
    LET found == GetProvider(<<>>)
    IN  IF found.instance = NoProvider
        THEN BatchItem("failed", ResolveLocale(dto), <<>>, <<>>,
                       MkError("Provider not registered", found.type, "", <<>>))
        ELSE BatchItem("awaiting", ResolveLocale(dto), <<>>, <<>>, NoError)

\* Variant: the results are collected in the order the calls settled.
PromiseAllResultsBySettlement(items, order) ==
    [i \in 1..Len(items) |-> items[order[i]].result[1]]

\* The value of Promise.all once every call has resolved: the results by the
\* position of their promise in the input, whatever the order of settlement.
PromiseAllResults(items, order) ==
    [i \in 1..Len(items) |-> items[i].result[1]]

\* Promise.all after the call `i` has settled as newItems[i]: it rejects with the
\* first rejection, and resolves when every call has resolved.
BatchSettle(newItems, newOrder, i) ==
    /\ bxItems' = newItems
    /\ bxOrder' = newOrder
    /\ IF bxPc = "pending" /\ newItems[i].pc = "failed"
       THEN /\ bxPc' = "rejected"
            /\ bxError' = newItems[i].error
            /\ bxResults' = <<>>
       ELSE IF bxPc = "pending" /\ \A j \in 1..Len(newItems) : newItems[j].pc = "returned"
       THEN /\ bxPc' = "resolved"
            /\ bxResults' = PromiseAllResults(newItems, newOrder)
            /\ bxError' = NoError
       ELSE UNCHANGED << bxPc, bxError, bxResults >>

BatchStart(queries) ==
    /\ bxPc = "idle"
    /\ LET found == GetProvider(<<>>)
           items == [i \in 1..Len(queries) |-> BatchStartItem(queries[i])]
       IN  /\ found.instance # NoProvider
                => usageStats[found.instance].requestCount + Len(queries) <= MaxRequests
           /\ bxQueries' = queries
           /\ bxItems' = items
           /\ bxOrder' = IF found.instance = NoProvider
                         THEN [i \in 1..Len(queries) |-> i] ELSE <<>>
           /\ IF queries = <<>>
              THEN /\ bxPc' = "resolved"
                   /\ bxResults' = <<>>
                   /\ bxError' = NoError
              ELSE IF found.instance = NoProvider
              THEN /\ bxPc' = "rejected"
                   /\ bxResults' = <<>>
                   /\ bxError' = items[1].error
              ELSE /\ bxPc' = "pending"
                   /\ bxResults' = <<>>
                   /\ bxError' = NoError
    /\ UNCHANGED << aiVars, qaVars, pvVars, partVars, usageStats, exVars, iaVars, itVars >>

\* The backend answers the request of call i.
BatchRespond(i, raw) ==
    /\ i \in 1..Len(bxItems)
    /\ bxItems[i].pc = "awaiting"
    /\ LET inst == GetProvider(<<>>).instance
           gen  == GenerateJSONContinue(inst, defaultModel, raw, EmptyIntentObject,
                                        usageStats[inst])
           item == IF gen.ok
                   THEN BatchItem("returned", bxItems[i].locale, << gen.value >>,
                                  << ExtractOutcome(bxQueries[i], bxItems[i].locale,
                                                    gen.value) >>,
                                  NoError)
                   ELSE BatchItem("failed", bxItems[i].locale, <<>>, <<>>, gen.error)
       IN  /\ usageStats' = [usageStats EXCEPT ![inst] = gen.stats]
           /\ BatchSettle([bxItems EXCEPT ![i] = item], Append(bxOrder, i), i)
    /\ UNCHANGED << bxQueries, aiVars, qaVars, pvVars, partVars, exVars, iaVars, itVars >>

\* The backend call of call i rejects.
BatchTransportFail(i) ==
    /\ i \in 1..Len(bxItems)
    /\ bxItems[i].pc = "awaiting"
    /\ LET item == BatchItem("failed", bxItems[i].locale, <<>>, <<>>,
                             GenerateJSONTransportError(GetProvider(<<>>).instance))
       IN  BatchSettle([bxItems EXCEPT ![i] = item], Append(bxOrder, i), i)
    /\ UNCHANGED << bxQueries, aiVars, qaVars, pvVars, partVars, usageStats, exVars, iaVars, itVars >>

\* The batch is over and no call of it is still in flight.
BatchDone ==
    /\ bxPc \in {"resolved", "rejected"}
    /\ \A j \in 1..Len(bxItems) : bxItems[j].pc # "awaiting"
    /\ bxPc' = "idle"
    /\ bxQueries' = <<>>
    /\ bxItems' = <<>>
    /\ bxOrder' = <<>>
    /\ bxResults' = <<>>
    /\ bxError' = NoError
    /\ UNCHANGED << aiVars, qaVars, pvVars, partVars, usageStats, exVars, iaVars, itVars >>

NextBatch ==
    \/ \E queries \in BatchQueries : BatchStart(queries)
    \/ \E i \in 1..MaxBatch, raw \in BatchResponses : BatchRespond(i, raw)
    \/ \E i \in 1..MaxBatch : BatchTransportFail(i)
    \/ BatchDone
    \/ ResetAllUsageStats

SpecBatch == Init /\ [][NextBatch]_vars

(***************************************************************************)
(* ItineraryChain.generate, one invocation                                 *)
(***************************************************************************)
\* generate up to the await of the backend call: validateDateRange, templates,
\* context message, AiService.generateJSON (getProvider), provider.generateJSON
\* up to the request.
GenerateStart(dto) ==
    /\ itPc = "idle"
    /\ LET locale == IF dto.locale # <<>> THEN dto.locale[1] ELSE "en"
           range  == ValidateDateRange(dto.startDate, dto.endDate, dto.days)
           found  == GetProvider(<<>>)
       IN  /\ (range.ok /\ found.instance # NoProvider)
                => usageStats[found.instance].requestCount < MaxRequests
           /\ itDto' = dto
           /\ itWarned' = range.warned
           /\ IF ~range.ok
              THEN /\ itPc' = "failed"
                   /\ itError' = MkError("End date must be after start date", "", "", <<>>)
                   /\ itTemplates' = <<>>
                   /\ itCalls' = <<>>
              ELSE IF found.instance = NoProvider
              THEN /\ itPc' = "failed"
                   /\ itError' = MkError("Provider not registered", found.type, "", <<>>)
                   /\ itTemplates' = GenerateTemplates(locale)
                   /\ itCalls' = << "generateJSON" >>
              ELSE /\ itPc' = "awaiting"
                   /\ itError' = NoError
                   /\ itTemplates' = GenerateTemplates(locale)
                   /\ itCalls' = << "generateJSON" >>
    /\ UNCHANGED << itResponse, itResult, aiVars, qaVars, pvVars, partVars, usageStats, exVars, iaVars, bxVars >>

\* The backend answers: the provider tracks usage and parses; generate then
\* validates, and post-processes or raises.
GenerateRespond(raw) ==
    /\ itPc = "awaiting"
    /\ LET inst == GetProvider(<<>>).instance
           gen  == GenerateJSONContinue(inst, defaultModel, raw, EmptyItineraryObject,
                                        usageStats[inst])
           out  == GenerateOutcome(gen.value)
       IN  /\ usageStats' = [usageStats EXCEPT ![inst] = gen.stats]
           /\ IF ~gen.ok
              THEN /\ itPc' = "failed"
                   /\ itResponse' = <<>>
                   /\ itResult' = <<>>
                   /\ itError' = gen.error
                   /\ UNCHANGED itCalls
              ELSE /\ itPc' = IF out.ok THEN "returned" ELSE "failed"
                   /\ itResponse' = << gen.value >>
                   /\ itResult' = out.itinerary
                   /\ itError' = out.error
                   /\ itCalls' = itCalls \o out.calls
    /\ UNCHANGED << itDto, itTemplates, itWarned, aiVars, qaVars, pvVars, partVars, exVars, iaVars, bxVars >>

\* The backend call rejects: handleError rethrows, generate logs and rethrows.
GenerateTransportFail ==
    /\ itPc = "awaiting"
    /\ itPc' = "failed"
    /\ itError' = GenerateJSONTransportError(GetProvider(<<>>).instance)
    /\ UNCHANGED << itDto, itTemplates, itWarned, itCalls, itResponse, itResult,
                    aiVars, qaVars, pvVars, partVars, usageStats, exVars, iaVars, bxVars >>

\* The invocation is over; the chain is ready for the next one.
GenerateDone ==
    /\ itPc \in {"returned", "failed"}
    /\ itPc' = "idle"
    /\ itDto' = NoGenerateDto
    /\ itTemplates' = <<>>
    /\ itWarned' = FALSE
    /\ itCalls' = <<>>
    /\ itResponse' = <<>>
    /\ itResult' = <<>>
    /\ itError' = NoError
    /\ UNCHANGED << aiVars, qaVars, pvVars, partVars, usageStats, exVars, iaVars, bxVars >>

NextGenerate ==
    \/ \E dto \in GenerateDtos : GenerateStart(dto)
    \/ \E raw \in ItineraryResponses : GenerateRespond(raw)
    \/ GenerateTransportFail
    \/ GenerateDone
    \/ ResetAllUsageStats

SpecGenerate == Init /\ [][NextGenerate]_vars

(***************************************************************************)
(* estimateQuality and getStatistics applied to one itinerary              *)
(***************************************************************************)
\* Neither method reads the AiService: one configuration is enough.
InitInspect ==
    /\ InitAiService
    /\ apiKeys = {"openai"}
    /\ InitExtract
    /\ InitActionableIdle
    /\ InitBatch
    /\ InitGenerate
    /\ qaItinerary \in InspectedItineraries
    /\ eqScores = <<>>
    /\ gsResult = <<>>
    /\ InitProviderIdle
    /\ InitPartsIdle

ApplyEstimateQuality ==
    /\ Len(eqScores) < MaxQualityCalls
    /\ eqScores' = Append(eqScores, EstimateQualityCall(qaItinerary).score)
    /\ qaItinerary' = EstimateQualityCall(qaItinerary).itinerary
    /\ UNCHANGED << gsResult, aiVars, pvVars, partVars, usageStats, exVars, iaVars, bxVars, itVars >>

ApplyGetStatistics ==
    /\ gsResult = <<>>
    /\ gsResult' = << GetStatistics(qaItinerary) >>
    /\ UNCHANGED << qaItinerary, eqScores, aiVars, pvVars, partVars, usageStats, exVars, iaVars,
                    bxVars, itVars >>

NextInspect ==
    \/ ApplyEstimateQuality
    \/ ApplyGetStatistics

SpecInspect == InitInspect /\ [][NextInspect]_vars

(***************************************************************************)
(* Rounds of calls on one provider instance.  A call runs up to its await  *)
(* of the backend when it is made, and from the backend's answer to its    *)
(* end when the answer arrives: between the two, other calls may start     *)
(* and finish.                                                             *)
(***************************************************************************)
InitProvider ==
    /\ InitAiService
    /\ InitExtract
    /\ InitActionableIdle
    /\ InitBatch
    /\ InitGenerate
    /\ InitInspectIdle
    /\ pvInst \in { i \in ProviderInstances : \E t \in apiKeys : FactoryProviders(apiKeys)[t] = i }
    /\ pvCalls = <<>>
    /\ pvOrder = <<>>
    /\ pvBase = ZeroStats
    /\ pvResetSeen = FALSE
    /\ pvSucceeded = 0
    /\ InitPartsIdle

\* complete / chat / generateJSON up to the await of the backend call.
ProviderStart(method) ==
    /\ Len(pvCalls) < MaxConcurrent
    /\ usageStats[pvInst].requestCount
          + Cardinality({ i \in 1..Len(pvCalls) : pvCalls[i].pc = "awaiting" })
          < MaxRequests
    /\ pvCalls' = Append(pvCalls, ProviderCall(method, "awaiting", NoUsage))
    /\ pvBase' = IF pvCalls = <<>> THEN usageStats[pvInst] ELSE pvBase
    /\ UNCHANGED << pvInst, pvOrder, pvResetSeen, pvSucceeded, usageStats,
                    aiVars, qaVars, partVars, exVars, iaVars, bxVars, itVars >>

\* The backend answers call i, which runs to its end.
ProviderRespond(i, raw) ==
    /\ i \in 1..Len(pvCalls)
    /\ pvCalls[i].pc = "awaiting"
    /\ LET out == ProviderContinue(pvCalls[i].method, pvInst, defaultModel, raw,
                                   usageStats[pvInst])
       IN  /\ usageStats' = [usageStats EXCEPT ![pvInst] = out.stats]
           /\ pvCalls' = [pvCalls EXCEPT
                             ![i] = ProviderCall(pvCalls[i].method,
                                                 IF out.ok THEN "returned" ELSE "failed",
                                                 raw.usage)]
           /\ pvSucceeded' = IF out.ok THEN pvSucceeded + 1 ELSE pvSucceeded
    /\ pvOrder' = Append(pvOrder, i)
    /\ UNCHANGED << pvInst, pvBase, pvResetSeen,
                    aiVars, qaVars, partVars, exVars, iaVars, bxVars, itVars >>

\* The backend call of call i rejects: handleError rethrows.
ProviderReject(i) ==
    /\ i \in 1..Len(pvCalls)
    /\ pvCalls[i].pc = "awaiting"
    /\ pvCalls' = [pvCalls EXCEPT ![i] = ProviderCall(pvCalls[i].method, "failed", NoUsage)]
    /\ pvOrder' = Append(pvOrder, i)
    /\ UNCHANGED << pvInst, pvBase, pvResetSeen, pvSucceeded, usageStats,
                    aiVars, qaVars, partVars, exVars, iaVars, bxVars, itVars >>

\* resetUsageStats on the instance.
ProviderResetUsageStats ==
    /\ usageStats[pvInst] # ZeroStats
    /\ usageStats' = [usageStats EXCEPT ![pvInst] = ZeroStats]
    /\ pvSucceeded' = 0
    /\ pvResetSeen' = (pvCalls # <<>>)
    /\ UNCHANGED << pvInst, pvCalls, pvOrder, pvBase,
                    aiVars, qaVars, partVars, exVars, iaVars, bxVars, itVars >>

\* Every call of the round has settled; the next round begins.
ProviderRoundDone ==
    /\ pvCalls # <<>>
    /\ \A i \in 1..Len(pvCalls) : pvCalls[i].pc # "awaiting"
    /\ pvCalls' = <<>>
    /\ pvOrder' = <<>>
    /\ pvBase' = usageStats[pvInst]
    /\ pvResetSeen' = FALSE
    /\ UNCHANGED << pvInst, pvSucceeded, usageStats,
                    aiVars, qaVars, partVars, exVars, iaVars, bxVars, itVars >>

NextProvider ==
    \/ \E method \in ProviderMethods : ProviderStart(method)
    \/ \E i \in 1..MaxConcurrent + 1, raw \in ProviderResponses : ProviderRespond(i, raw)
    \/ \E i \in 1..MaxConcurrent + 1 : ProviderReject(i)
    \/ ProviderResetUsageStats
    \/ ProviderRoundDone

SpecProvider == InitProvider /\ [][NextProvider]_vars

(***************************************************************************)
(* The provider registry of AiService: registrations and lookups           *)
(***************************************************************************)
\* registerProvider(type, provider), by the factory's caller or a test.
RegisterProvider(type, provider) ==
    /\ Len(regLog) < MaxRegistrations
    /\ providers' = ProvidersSet(providers, type, provider)
    /\ regLog' = Append(regLog, <<type, provider>>)
    /\ gpCall' = <<>>
    /\ UNCHANGED << apiKeys, defaultProvider, defaultModel, usageStats,
                    svPc, svCall, svProviderCalls, svProviderOutcome, svOutcome,
                    besidesService >>

\* getProvider(type), type possibly omitted.
ApplyGetProvider(type) ==
    /\ gpCall' = << GetProviderCall(type) >>
    /\ UNCHANGED << aiVars, usageStats, regLog,
                    svPc, svCall, svProviderCalls, svProviderOutcome, svOutcome,
                    besidesService >>

NextRegistry ==
    \/ \E type \in LLMProviderTypes, provider \in ProviderInstances :
          RegisterProvider(type, provider)
    \/ \E type \in {<<>>} \cup { <<t>> : t \in LLMProviderTypes } :
          ApplyGetProvider(type)

SpecRegistry == Init /\ [][NextRegistry]_vars

(***************************************************************************)
(* AiService.complete / chat / generateJSON, one call at a time            *)
(***************************************************************************)
\* The call up to the await inside the provider operation: getProvider,
\* the merge of the options, and the invocation of the provider operation.
ServiceStart(call) ==
    /\ svPc = "idle"
    /\ svCall' = call
    /\ LET found == GetProviderCall(call.provider)
       IN  IF ~found.ok
           THEN /\ svPc' = "failed"
                /\ svOutcome' = << [ok |-> FALSE, kind |-> "not registered"] >>
                /\ UNCHANGED svProviderCalls
           ELSE /\ usageStats[found.instance].requestCount < MaxRequests
                /\ svPc' = "awaiting"
                /\ svProviderCalls' =
                      Append(svProviderCalls,
                             [instance |-> found.instance, method |-> call.method,
                              options |-> MergeOptions(defaultModel, call.options)])
                /\ UNCHANGED svOutcome
    /\ UNCHANGED << aiVars, usageStats, regLog, gpCall, svProviderOutcome,
                    besidesService >>

\* The backend answers: the provider operation runs to its end and the
\* service returns the provider's promise.
ServiceRespond(raw) ==
    /\ svPc = "awaiting"
    /\ LET op  == svProviderCalls[Len(svProviderCalls)]
           out == ProviderContinue(op.method, op.instance, op.options.model, raw,
                                   usageStats[op.instance])
       IN  /\ usageStats' = [usageStats EXCEPT ![op.instance] = out.stats]
           /\ svProviderOutcome' = << [ok |-> out.ok, kind |-> raw.kind] >>
           /\ svOutcome' = svProviderOutcome'
           /\ svPc' = IF out.ok THEN "returned" ELSE "failed"
    /\ UNCHANGED << aiVars, regLog, gpCall, svCall, svProviderCalls,
                    besidesService >>

\* The backend call rejects: the provider operation rethrows, and so does
\* the service.
ServiceReject ==
    /\ svPc = "awaiting"
    /\ svProviderOutcome' = << [ok |-> FALSE, kind |-> "transport"] >>
    /\ svOutcome' = svProviderOutcome'
    /\ svPc' = "failed"
    /\ UNCHANGED << aiVars, usageStats, regLog, gpCall, svCall, svProviderCalls,
                    besidesService >>

\* The caller has the outcome; the service is called again.
ServiceDone ==
    /\ svPc \in {"returned", "failed"}
    /\ svPc' = "idle"
    /\ svCall' = NoServiceCall
    /\ svProviderCalls' = <<>>
    /\ svProviderOutcome' = <<>>
    /\ svOutcome' = <<>>
    /\ UNCHANGED << aiVars, usageStats, regLog, gpCall,
                    besidesService >>

NextService ==
    \/ \E call \in ServiceCalls : ServiceStart(call)
    \/ \E raw \in ServiceResponses : ServiceRespond(raw)
    \/ ServiceReject
    \/ ServiceDone

SpecService == Init /\ [][NextService]_vars

(***************************************************************************)
(* One iteration of stream() on a provider instance.  The backend's event  *)
(* stream follows the backend's streaming protocol: an Anthropic stream    *)
(* ends with one message_stop event; the chunks of an OpenAI stream carry  *)
(* finish_reason null until the last one, which has an empty delta and a   *)
(* finish_reason.                                                          *)
(***************************************************************************)
\* stream() up to the first event: the request is made.
StreamStart(inst) ==
    /\ smPc \in {"idle", "completed", "failed"}
    /\ smInst' = inst
    /\ smPc' = "streaming"
    /\ smConsumed' = 0
    /\ smChunks' = <<>>
    /\ UNCHANGED besidesStream

\* One pass of the for-await loop over a backend event that is not the
\* last one of the protocol.
StreamEvent(event) ==
    /\ smPc = "streaming"
    /\ smConsumed < MaxStreamEvents
    /\ event \in StreamBodyEvents(smInst)
    /\ smConsumed' = smConsumed + 1
    /\ smChunks' = smChunks \o StreamYield(smInst, event)
    /\ UNCHANGED << smInst, smPc, besidesStream >>

\* One pass of the loop over the last event of the protocol.
StreamLastEvent(event) ==
    /\ smPc = "streaming"
    /\ event \in StreamFinalEvents(smInst)
    /\ smPc' = "stopping"
    /\ smConsumed' = smConsumed + 1
    /\ smChunks' = smChunks \o StreamYield(smInst, event)
    /\ UNCHANGED << smInst, besidesStream >>

\* The backend's iterator is done: the loop ends and the generator returns.
StreamEnd ==
    /\ smPc = "stopping"
    /\ smPc' = "completed"
    /\ UNCHANGED << smInst, smConsumed, smChunks, besidesStream >>

\* The request or the backend's iterator throws: the catch logs and rethrows.
StreamError ==
    /\ smPc \in {"streaming", "stopping"}
    /\ smPc' = "failed"
    /\ UNCHANGED << smInst, smConsumed, smChunks, besidesStream >>

NextStream ==
    \/ \E inst \in ProviderInstances : StreamStart(inst)
    \/ \E event \in AnthropicEvents \cup OpenAIChunks : StreamEvent(event)
    \/ \E event \in AnthropicEvents \cup OpenAIChunks : StreamLastEvent(event)
    \/ StreamEnd
    \/ StreamError

SpecStream == Init /\ [][NextStream]_vars

(***************************************************************************)
(* PromptTemplateService over a prompts directory that changes             *)
(***************************************************************************)
\* The constructor has run loadTemplates over the directory as it was.
InitTemplates ==
    /\ InitAiService
    /\ InitExtract
    /\ InitActionableIdle
    /\ InitBatch
    /\ InitGenerate
    /\ InitInspectIdle
    /\ InitProviderIdle
    /\ InitServiceIdle
    /\ InitStreamIdle
    /\ InitValidateIdle
    /\ InitMessagesIdle
    /\ apiKeys = {"openai"}
    /\ ptDirs \in SUBSET Locales
    /\ ptFiles \in SUBSET { f \in TemplateFiles : f[1] \in ptDirs }
    /\ ptTemplates = LoadTemplates(ptDirs, ptFiles, NoTemplates)
    /\ ptSeen = << ptDirs, ptFiles >>
    /\ ptGet = <<>>

\* A template file is written to, or removed from, an existing directory.
ChangeFile(file) ==
    /\ file[1] \in ptDirs
    /\ ptFiles' = IF file \in ptFiles THEN ptFiles \ {file} ELSE ptFiles \cup {file}
    /\ ptGet' = <<>>
    /\ UNCHANGED << ptDirs, ptTemplates, ptSeen, besidesTemplates >>

\* reload(): templates.clear(), then loadTemplates().
Reload ==
    /\ ptTemplates' = LoadTemplates(ptDirs, ptFiles, NoTemplates)
    /\ ptSeen' = << ptDirs, ptFiles >>
    /\ ptGet' = <<>>
    /\ UNCHANGED << ptDirs, ptFiles, besidesTemplates >>

\* getTemplate(name, locale).
ApplyGetTemplate(name, locale) ==
    /\ ptGet' = << [name |-> name, locale |-> locale,
                    result |-> GetTemplate(ptTemplates, name, locale)] >>
    /\ UNCHANGED << ptDirs, ptFiles, ptTemplates, ptSeen, besidesTemplates >>

NextTemplates ==
    \/ \E file \in TemplateFiles : ChangeFile(file)
    \/ Reload
    \/ \E name \in TemplateNames, locale \in Locales : ApplyGetTemplate(name, locale)

SpecTemplates == InitTemplates /\ [][NextTemplates]_vars

(***************************************************************************)
(* Calls on the schema validator                                           *)
(***************************************************************************)
\* The validator reads nothing of the AiService: one configuration is enough.
InitValidate ==
    /\ Init
    /\ apiKeys = {"openai"}

ApplyValidate(input) ==
    /\ Len(vlCalls) < MaxValidations
    /\ LET call == ValidateCall(input[1], input[2])
       IN  vlCalls' = Append(vlCalls,
                             [method |-> "validate", schema |-> input[1],
                              data |-> input[2], threw |-> call.threw,
                              result |-> call.result])
    /\ UNCHANGED besidesValidate

ApplyValidateOrThrow(input) ==
    /\ Len(vlCalls) < MaxValidations
    /\ LET call == ValidateOrThrowCall(input[1], input[2])
       IN  vlCalls' = Append(vlCalls,
                             [method |-> "validateOrThrow", schema |-> input[1],
                              data |-> input[2], threw |-> call.threw,
                              result |-> call.result])
    /\ UNCHANGED besidesValidate

NextValidate ==
    \/ \E input \in ValidateInputs : ApplyValidate(input)
    \/ \E input \in ValidateInputs : ApplyValidateOrThrow(input)

SpecValidate == InitValidate /\ [][NextValidate]_vars

(***************************************************************************)
(* chat and generateJSON on one provider, with one caller-owned array      *)
(***************************************************************************)
\* The caller has built a conversation and holds a provider.
InitMessages ==
    /\ InitAiService
    /\ InitExtract
    /\ InitActionableIdle
    /\ InitBatch
    /\ InitGenerate
    /\ InitInspectIdle
    /\ InitProviderIdle
    /\ InitServiceIdle
    /\ InitStreamIdle
    /\ InitTemplatesIdle
    /\ InitValidateIdle
    /\ apiKeys = LLMProviderTypes
    /\ cmInst \in ProviderInstances
    /\ cmMessages \in UNION { Conversations(n) : n \in 0..MaxMessages }
    /\ cmOriginal = cmMessages
    /\ cmPc = "idle"
    /\ cmJsonCalls = 0
    /\ cmDispatched = <<>>

\* chat(messages, options) up to the await of the backend call.
ChatStart ==
    /\ cmPc = "idle"
    /\ cmPc' = "awaiting"
    /\ cmDispatched' = << RequestOf(cmInst, cmMessages) >>
    /\ UNCHANGED << cmInst, cmMessages, cmOriginal, cmJsonCalls, besidesMessages >>

\* generateJSON(messages, schema, options) up to the await of the backend
\* call.  With an empty array the += on the missing last message throws a
\* TypeError, which handleError rethrows: nothing is sent.
GenerateJSONStart ==
    /\ cmPc = "idle"
    /\ cmJsonCalls < MaxJsonCalls
    /\ cmJsonCalls' = cmJsonCalls + 1
    /\ IF cmMessages = <<>>
       THEN /\ cmPc' = "failed"
            /\ UNCHANGED << cmMessages, cmDispatched >>
       ELSE LET started == GenerateJSONRequest(cmInst, cmMessages)
            IN  /\ cmPc' = "awaiting"
                /\ cmMessages' = started.caller
                /\ cmDispatched' = << started.request >>
    /\ UNCHANGED << cmInst, cmOriginal, besidesMessages >>

\* The backend call settles and the call finishes: with a result, or with
\* the error handleError rethrows.
CallSettle(ok) ==
    /\ cmPc = "awaiting"
    /\ cmPc' = IF ok THEN "returned" ELSE "failed"
    /\ UNCHANGED << cmInst, cmMessages, cmOriginal, cmJsonCalls, cmDispatched,
                    besidesMessages >>

\* The caller has the outcome and keeps its array for the next call.
CallDone ==
    /\ cmPc \in {"returned", "failed"}
    /\ cmPc' = "idle"
    /\ cmDispatched' = <<>>
    /\ UNCHANGED << cmInst, cmMessages, cmOriginal, cmJsonCalls, besidesMessages >>

NextMessages ==
    \/ ChatStart
    \/ GenerateJSONStart
    \/ \E ok \in BOOLEAN : CallSettle(ok)
    \/ CallDone

SpecMessages == InitMessages /\ [][NextMessages]_vars

(***************************************************************************)
(* Properties of ItineraryChain.generate (checked under SpecGenerate)      *)
(***************************************************************************)
\* The instants of the date strings, earliest first.
DateOrder == << "2025-12-05", "2025-12-05T12:00:00Z", "2025-12-07" >>

DatePosition(s) == CHOOSE i \in 1..Len(DateOrder) : DateOrder[i] = s

StrictlyBefore(a, b) == DatePosition(a) < DatePosition(b)

\* C1: throughout an invocation of generate whose startDate is not strictly
\* before its endDate (equal dates included), generate has failed with the
\* message "End date must be after start date" and generateJSON has not been
\* called.
C1_InvalidDateRangeRejectedBeforeModelCall ==
    (itPc # "idle" /\ ~StrictlyBefore(itDto.startDate, itDto.endDate))
        => /\ itPc = "failed"
           /\ itError.message = "End date must be after start date"
           /\ \A k \in 1..Len(itCalls) : itCalls[k] # "generateJSON"
           /\ itResponse = <<>>
           /\ itResult = <<>>

\* A request with equal dates has been rejected.
C1_Witness ==
    /\ itPc = "failed"
    /\ itDto.startDate = "2025-12-07"
    /\ itDto.endDate = "2025-12-07"
    /\ itError.message = "End date must be after start date"

\* C2: whenever the validator reports the model output invalid, generate has
\* failed with an "Invalid itinerary response" error carrying the validator's
\* error list, there is no itinerary, and neither a sort nor the totalCost
\* computation has been made in the invocation.
C2_InvalidItineraryRaises ==
    (itResponse # <<>> /\ ~ValidateItinerary(itResponse[1]).valid)
        => /\ itPc = "failed"
           /\ itError.message = "Invalid itinerary response"
           /\ itError.errors = ValidateItinerary(itResponse[1]).errors
           /\ itError.errors # <<>>
           /\ itResult = <<>>
           /\ \A k \in 1..Len(itCalls) :
                  itCalls[k] \notin {"sort", "calculateTotalCost"}

\* The model output lacked the days: validation failed with that error.
C2_Witness ==
    /\ itPc = "failed"
    /\ itResponse # <<>>
    /\ itResponse[1].title # <<>>
    /\ itResponse[1].days = <<>>
    /\ itError.message = "Invalid itinerary response"
    /\ itError.errors = << Issue("days", "Required") >>

\* hours*60+minutes of a time
TimeOfDay(t) == t[1] * 60 + (IF Len(t) >= 2 THEN t[2] ELSE 0)

\* The position in `acts` of the activity a (activities of a day are distinct).
PositionIn(acts, a) == CHOOSE k \in 1..Len(acts) : acts[k] = a

\* `out` is `inp` stable-sorted by time-of-day.
StableSortedFrom(out, inp) ==
    /\ Len(out) = Len(inp)
    /\ { out[k] : k \in 1..Len(out) } = { inp[k] : k \in 1..Len(inp) }
    /\ \A i, j \in 1..Len(out) :
          i < j => /\ TimeOfDay(out[i].time) <= TimeOfDay(out[j].time)
                   /\ TimeOfDay(out[i].time) = TimeOfDay(out[j].time)
                        => PositionIn(inp, out[i]) < PositionIn(inp, out[j])

\* C10: when generate has returned, every day of the returned itinerary holds
\* the activities of the same day of the model output, in non-decreasing
\* time-of-day, activities of equal time in their original relative order.
C10_ActivitiesStableSortedByTime ==
    itPc = "returned"
        => /\ itResponse # <<>> /\ itResult # <<>>
           /\ Len(itResult[1].days) = Len(itResponse[1].days[1])
           /\ \A d \in 1..Len(itResult[1].days) :
                  StableSortedFrom(itResult[1].days[d].activities,
                                   itResponse[1].days[1][d].activities)

\* A day given as "9", "09:00", "8:45" is returned as "8:45", "9", "09:00".
C10_Witness ==
    /\ itPc = "returned"
    /\ \E d \in 1..Len(itResult[1].days) :
          LET inp == itResponse[1].days[1][d].activities
              out == itResult[1].days[d].activities
          IN  /\ Len(inp) = 3
              /\ inp[1].time = << 9 >> /\ inp[2].time = << 9, 0 >>
              /\ inp[3].time = << 8, 45 >>
              /\ out = << inp[3], inp[1], inp[2] >>

\* C29: throughout an invocation of generate whose startDate is strictly
\* before its endDate, whatever the days count, generateJSON has been called
\* exactly once and no error comes from the date check: generate is awaiting
\* the model, has returned, or has failed in the model call or on its output.
C29_DaysMismatchIsNoError ==
    (itPc # "idle" /\ StrictlyBefore(itDto.startDate, itDto.endDate))
        => /\ Cardinality({ k \in 1..Len(itCalls) : itCalls[k] = "generateJSON" }) = 1
           /\ itError.message \in {"", "Provider not registered", "GenerateJSON",
                                   "Invalid itinerary response"}
           /\ itPc = "failed" => itError.message # ""

\* A request for 30 days over a two-day range has returned an itinerary, the
\* mismatch logged.
C29_Witness ==
    /\ itPc = "returned"
    /\ itDto.startDate = "2025-12-05" /\ itDto.endDate = "2025-12-07"
    /\ itDto.days = 30
    /\ itWarned
    /\ itResult # <<>>

RECURSIVE SumOfFunction(_)
\* The sum of the values of a function with a finite domain.
SumOfFunction(f) ==
    IF DOMAIN f = {} THEN 0
    ELSE LET x == CHOOSE x \in DOMAIN f : TRUE
         IN  f[x] + SumOfFunction([y \in DOMAIN f \ {x} |-> f[y]])

\* The places <<day, index>> of the activities of an itinerary's days.
ActivityPlaces(days) ==
    { p \in (1..Len(days)) \X (1..MaxActs + 1) : p[2] <= Len(days[p[1]].activities) }

ActivityAt(days, p) == days[p[1]].activities[p[2]]

\* p comes before q in day order, then activity order.
PlaceBefore(p, q) == p[1] < q[1] \/ (p[1] = q[1] /\ p[2] < q[2])

\* The validated model output carried no totalCost and generate has returned.
ReturnedWithComputedTotal ==
    /\ itPc = "returned"
    /\ itResponse # <<>> /\ itResult # <<>>
    /\ itResponse[1].totalCost = <<>>

\* C11: when generate returns an itinerary whose model output had no totalCost
\* and whose activities all have a cost, totalCost.amount is an integer
\* nearest to the sum of the activities' cost.amount over all days (amounts
\* are in tenths: an integer is a multiple of 10, nearest is within 5).
C11_TotalCostIsRoundedSum ==
    LET days   == itResponse[1].days[1]
        places == ActivityPlaces(days)
        sum    == SumOfFunction([p \in places |-> ActivityAt(days, p).cost[1].amount])
        amount == itResult[1].totalCost[1].amount
    IN  (ReturnedWithComputedTotal
            /\ \A p \in ActivityPlaces(itResponse[1].days[1]) :
                   ActivityAt(itResponse[1].days[1], p).cost # <<>>)
        => /\ itResult[1].totalCost # <<>>
           /\ amount % 10 = 0
           /\ amount - sum <= 5 /\ sum - amount <= 5

\* Two days, 10.5 + 20.4 and 10.5, are returned with the total 41.
C11_Witness ==
    /\ ReturnedWithComputedTotal
    /\ Len(itResponse[1].days[1]) = 2
    /\ Len(itResponse[1].days[1][1].activities) = 2
    /\ Len(itResponse[1].days[1][2].activities) = 1
    /\ \A p \in ActivityPlaces(itResponse[1].days[1]) :
           ActivityAt(itResponse[1].days[1], p).cost # <<>>
    /\ itResult[1].totalCost # <<>>
    /\ itResult[1].totalCost[1].amount = 410

\* C12 (as claimed): when the model output had no totalCost, the computed
\* totalCost.currency is the currency of the first activity cost encountered
\* in day order, then activity order, and "NZD" when no activity has a cost.
C12_CurrencyIsFirstEncountered ==
    LET days   == itResult[1].days
        costed == { p \in ActivityPlaces(days) : ActivityAt(days, p).cost # <<>> }
        first  == CHOOSE p \in costed : \A q \in costed : q = p \/ PlaceBefore(p, q)
    IN  ReturnedWithComputedTotal
        => /\ itResult[1].totalCost # <<>>
           /\ itResult[1].totalCost[1].currency =
                  IF costed = {} THEN "NZD"
                  ELSE ActivityAt(days, first).cost[1].currency

\* C13: when the validated model output carries a totalCost, the returned
\* itinerary's totalCost is that value, amount and currency.
C13_GivenTotalCostKept ==
    (itPc = "returned" /\ itResponse # <<>> /\ itResponse[1].totalCost # <<>>)
        => /\ itResult # <<>>
           /\ itResult[1].totalCost = itResponse[1].totalCost

\* A model output with totalCost 500 NZD and activities costing 30.9 is
\* returned with 500 NZD.
C13_Witness ==
    /\ itPc = "returned"
    /\ itResponse[1].totalCost = << Cost(5000, "NZD") >>
    /\ itResult[1].totalCost = << Cost(5000, "NZD") >>
    /\ SumCosts(FlattenActivities(itResult[1].days)) = 309

(***************************************************************************)
(* Properties of estimateQuality and getStatistics (under SpecInspect)     *)
(***************************************************************************)
\* C14: every score estimateQuality returns, for itineraries of any number of
\* days (none included), is an integer from 0 to 100.
C14_ScoreWithinBounds ==
    \A k \in 1..Len(eqScores) : eqScores[k] \in 0..100

\* An itinerary whose deductions exceed 100 has been scored 0.
C14_Witness ==
    /\ eqScores # <<>>
    /\ eqScores[1] = 0
    /\ Len(qaItinerary.days) >= 7
    /\ \A d \in 1..Len(qaItinerary.days) : qaItinerary.days[d] = OverDay

TotalDurationOf(day) ==
    SumOfFunction([k \in 1..Len(day.activities) |-> day.activities[k].duration])

HasMeal(day) ==
    \E m \in {day.meals.lunch, day.meals.dinner} : m # <<>> /\ m # << "" >>

\* The score as the rules give it.  The variance of the counts c over n days,
\* (n * sum(c^2) - sum(c)^2) / n^2, exceeds 4 iff n * sum(c^2) - sum(c)^2
\* exceeds 4 * n^2.
ScoreByRules(itinerary) ==
    LET days == itinerary.days
        n == Len(days)
        c == [d \in 1..n |-> Len(days[d].activities)]
        sumC == SumOfFunction(c)
        sumSquares == SumOfFunction([d \in 1..n |-> c[d] * c[d]])
        unbalanced == n > 0 /\ n * sumSquares - sumC * sumC > 4 * n * n
        over == Cardinality({ d \in 1..n : TotalDurationOf(days[d]) > 720 })
        under == Cardinality({ d \in 1..n : TotalDurationOf(days[d]) < 240 })
        fewMeals == 5 * Cardinality({ d \in 1..n : HasMeal(days[d]) }) < 4 * n
        raw == 100 - (IF unbalanced THEN 10 ELSE 0) - 15 * over - 10 * under
                   - (IF fewMeals THEN 5 ELSE 0)
    IN  IF raw < 0 THEN 0 ELSE IF raw > 100 THEN 100 ELSE raw

\* C15: the score is 100 minus 10 for a variance of the activity counts above
\* 4, minus 15 per day over 720 minutes, minus 10 per day under 240 minutes,
\* minus 5 when fewer than 80% of the days have lunch or dinner, clamped to
\* 0..100; ten and one sixty-minute activities without meals score below 80,
\* two days of two activities, 240..720 minutes, with meals score above 80.
C15_ScoreByRules ==
    \A k \in 1..Len(eqScores) :
        /\ eqScores[k] = ScoreByRules(qaItinerary)
        /\ qaItinerary.days = << PackedDay, SparseDay >> => eqScores[k] < 80
        /\ (Len(qaItinerary.days) = 2
              /\ \A d \in 1..2 : qaItinerary.days[d] \in {FullDay, LightDay})
             => eqScores[k] > 80

\* Ten and one sixty-minute activities without meals have been scored 75.
C15_Witness ==
    /\ qaItinerary.days = << PackedDay, SparseDay >>
    /\ eqScores = << 75 >>

C17_ZeroDaysZeroedAverages ==
    (gsResult # <<>> /\ Len(qaItinerary.days) = 0)
        => /\ gsResult[1].avgActivitiesPerDay = JsNumber(0)
           /\ gsResult[1].avgDailyBudget = JsNumber(0)

\* r is a/b rounded to the nearest integer, halves up: r - 1/2 <= a/b < r + 1/2
RoundedHalfUp(r, a, b) ==
    /\ 2 * r * b - b <= 2 * a
    /\ 2 * a < 2 * r * b + b

\* C18: for an itinerary with at least one day, totalDays is the number of
\* days, totalActivities the number of activities of all days, totalCost the
\* totalCost.amount (0 when absent), and the two averages are
\* totalActivities/totalDays and totalCost/totalDays rounded to the nearest
\* integer, halves up (money in tenths: the budget r is kept as 10 * r).
C18_StatisticsOfNonEmptyItinerary ==
    LET days == qaItinerary.days
        n == Len(days)
        acts == Cardinality({ p \in (1..n) \X (1..10) :
                                 p[2] <= Len(days[p[1]].activities) })
        cost == IF qaItinerary.totalCost = <<>> THEN 0
                ELSE qaItinerary.totalCost[1].amount
        stats == gsResult[1]
    IN  (gsResult # <<>> /\ n >= 1)
        => /\ stats.totalDays = n
           /\ stats.totalActivities = acts
           /\ stats.totalCost = cost
           /\ stats.avgActivitiesPerDay.kind = "finite"
           /\ RoundedHalfUp(stats.avgActivitiesPerDay.value, acts, n)
           /\ stats.avgDailyBudget.kind = "finite"
           /\ stats.avgDailyBudget.value % 10 = 0
           /\ RoundedHalfUp(stats.avgDailyBudget.value \div 10, cost, 10 * n)

\* Three activities in two days, total cost 1001: averages 2 and 501.
C18_Witness ==
    /\ gsResult # <<>>
    /\ gsResult[1].totalDays = 2
    /\ gsResult[1].totalActivities = 3
    /\ gsResult[1].totalCost = 10010
    /\ gsResult[1].avgActivitiesPerDay = JsNumber(2)
    /\ gsResult[1].avgDailyBudget = JsNumber(5010)

(***************************************************************************)
(* Properties of the provider usage stats (checked under SpecProvider)     *)
(***************************************************************************)
\* C19 (as claimed): requestCount is the number of complete, chat and
\* generateJSON calls that returned successfully since the last reset; a call
\* that fails, a generateJSON call whose output does not parse included,
\* leaves the stats as they were.
C19_RequestCountIsSuccessfulCalls ==
    usageStats[pvInst].requestCount = pvSucceeded

\* Every call of the round has returned, two or more of them, and no reset
\* happened during the round.
RoundAllSucceeded ==
    /\ Len(pvCalls) >= 2
    /\ \A i \in 1..Len(pvCalls) : pvCalls[i].pc = "returned"
    /\ ~pvResetSeen

\* C20: when the calls of a round, in flight together and answered in any
\* order, have all succeeded, the stats are those of the same calls made one
\* after another: requestCount has grown by their number, the token counts by
\* the sums of the reported tokens, totalCost by the sum of their costs.
C20_ConcurrentCallsAddUp ==
    LET n == Len(pvCalls)
        prompt == SumOfFunction([i \in 1..n |-> pvCalls[i].usage.prompt])
        completion == SumOfFunction([i \in 1..n |-> pvCalls[i].usage.completion])
        cost == SumOfFunction([i \in 1..n |->
                    CalculateCost(pvInst, defaultModel, pvCalls[i].usage.prompt,
                                  pvCalls[i].usage.completion)])
        stats == usageStats[pvInst]
    IN  RoundAllSucceeded
        => /\ stats.requestCount = pvBase.requestCount + n
           /\ stats.totalTokens = pvBase.totalTokens + prompt + completion
           /\ stats.promptTokens = pvBase.promptTokens + prompt
           /\ stats.completionTokens = pvBase.completionTokens + completion
           /\ stats.totalCost = pvBase.totalCost + cost

\* Two calls reporting different usage, the second answered first.
C20_Witness ==
    /\ RoundAllSucceeded
    /\ Len(pvCalls) = 2
    /\ pvOrder = << 2, 1 >>
    /\ pvCalls[1].usage # pvCalls[2].usage
    /\ usageStats[pvInst].requestCount = 2
    /\ usageStats[pvInst].totalTokens = 27

(***************************************************************************)
(* Properties of IntentChain.extract (checked under SpecExtract)           *)
(***************************************************************************)
\* The fallback intent for the invocation in progress, written out.
ExpectedFallback ==
    [type |-> "general_query", confidence |-> 50, parameters |-> EmptyParameters,
     locale |-> exLocale[1], detectedLanguage |-> <<>>,
     metadata |-> << [fallback |-> TRUE, originalQuery |-> exDto.query] >>]

\* C3: whenever generateJSON resolved with a value that fails the intent
\* schema, extract has not raised and has returned the fallback intent:
\* general_query, confidence 0.5, the resolved locale, empty parameters,
\* metadata {fallback: true, originalQuery: the query}.
C3_FallbackOnInvalidIntent ==
    (exResponse # <<>> /\ ~ValidateIntent(exResponse[1]).valid)
        => /\ exPc = "returned"
           /\ exError = NoError
           /\ exResult = << ExpectedFallback >>

\* Witness of C3: a schema-invalid answer to a Chinese query without an explicit
\* locale has been turned into the fallback intent.
C3_Witness ==
    /\ exPc = "returned"
    /\ exResponse # <<>>
    /\ ~ValidateIntent(exResponse[1]).valid
    /\ exDto.locale = <<>>
    /\ exLocale = << "zh" >>
    /\ exResult # <<>>

\* C4 (as claimed): when the backend answers with text that is not JSON, extract
\* returns the fallback intent and does not raise; extract raises only when the
\* backend call itself failed.
C4_MalformedOutputFallsBack ==
    /\ (exRaw # <<>> /\ exRaw[1].kind = "text")
          => (exPc = "returned" /\ exResult = << ExpectedFallback >>)
    /\ (exPc = "failed" /\ exRaw # <<>>) => exError.cause = "transport"

\* C5: whenever the model output passes the intent schema, extract returns it
\* with type, confidence, locale and parameters as the model gave them and with
\* detectedLanguage set to the resolved locale.
C5_ValidIntentReturned ==
    (exResponse # <<>> /\ ValidateIntent(exResponse[1]).valid)
        => /\ exPc = "returned"
           /\ exResult # <<>>
           /\ exResult[1].type = exResponse[1].type[1]
           /\ exResult[1].confidence = exResponse[1].confidence[1]
           /\ exResult[1].locale = exResponse[1].locale[1]
           /\ exResult[1].parameters = exResponse[1].parameters[1]
           /\ exResult[1].detectedLanguage = exLocale

\* Witness of C5: a valid intent whose own locale differs from the resolved
\* locale has been returned.
C5_Witness ==
    /\ exPc = "returned"
    /\ exResponse # <<>>
    /\ ValidateIntent(exResponse[1]).valid
    /\ exResponse[1].locale # exLocale
    /\ exResponse[1].extra

\* CJK ideographs of the Basic Multilingual Plane (Unicode blocks CJK Unified
\* Ideographs Extension A, CJK Unified Ideographs, CJK Compatibility Ideographs).
IsCJKIdeograph(unit) ==
    \/ 13312 <= unit /\ unit <= 19903      \* U+3400..U+4DBF
    \/ 19968 <= unit /\ unit <= 40959      \* U+4E00..U+9FFF
    \/ 63744 <= unit /\ unit <= 64255      \* U+F900..U+FAFF

InBasicCJKBlock(unit) == 19968 <= unit /\ unit <= 40959     \* U+4E00..U+9FFF

IsAscii(unit) == 0 <= unit /\ unit <= 127

\* What holds of locale resolution whatever the reading of "CJK ideograph".
LocaleResolutionCommon ==
    /\ exDto.locale # <<>> => exLocale = exDto.locale
    /\ (exDto.locale = <<>> /\ \A i \in 1..Len(exDto.query) : IsAscii(exDto.query[i]))
          => exLocale = << "en" >>
    /\ exTemplates = << <<"system", exLocale[1]>>, <<"intent", exLocale[1]>> >>

C23_UnparseableOutputFails ==
    (exRaw # <<>> /\ exRaw[1].kind # "json")
        => /\ exResponse = <<>>
           /\ exPc = "failed"
           /\ exError.message = "GenerateJSON"
           /\ exError.cause = "SyntaxError"

(***************************************************************************)
(* Properties of IntentChain.isActionable (checked under SpecActionable)   *)
(***************************************************************************)
\* C7: an intent with confidence below 0.7 is never actionable, whatever its
\* type and parameters.
C7_LowConfidenceNotActionable ==
    (iaPc = "done" /\ iaIntent.confidence < 70) => iaResult = FALSE

\* Witness of C7: isActionable was applied to a greeting of confidence 0.69.
C7_Witness ==
    /\ iaPc = "done"
    /\ iaIntent.type = "greeting"
    /\ iaIntent.confidence = 69
    /\ iaResult = FALSE

\* A slot is present when it holds a non-empty string / a non-zero number.
DestinationPresent == iaIntent.parameters.destination \notin {<<>>, <<"">>}
DurationPresent == iaIntent.parameters.duration \notin {<<>>, <<0>>}

\* C8: for an intent with confidence of at least 0.7, create_itinerary is
\* actionable iff destination or duration is present; restaurant and rental
\* recommendation, weather and traffic checks iff destination is present;
\* greeting, help and general_query always.
C8_ActionableByType ==
    (iaPc = "done" /\ iaIntent.confidence >= 70)
        => /\ iaIntent.type = "create_itinerary"
                => (iaResult <=> (DestinationPresent \/ DurationPresent))
           /\ iaIntent.type \in {"recommend_restaurant", "recommend_rental",
                                 "check_weather", "check_traffic"}
                => (iaResult <=> DestinationPresent)
           /\ iaIntent.type \in {"greeting", "help", "general_query"}
                => iaResult = TRUE

\* Witness of C8: an itinerary request at confidence exactly 0.7 with a duration
\* and no destination was found actionable.
C8_Witness ==
    /\ iaPc = "done"
    /\ iaIntent.type = "create_itinerary"
    /\ iaIntent.confidence = 70
    /\ iaIntent.parameters.destination = <<>>
    /\ iaIntent.parameters.duration = << 3 >>
    /\ iaResult = TRUE

(***************************************************************************)
(* Properties of IntentChain.extractBatch (checked under SpecBatch)        *)
(***************************************************************************)
\* C9: when every extraction of a batch succeeded, whatever the order in which
\* the model calls completed, the output is as long as the input and its i-th
\* element is the result of extract on the i-th query.
C9_BatchPreservesOrder ==
    bxPc = "resolved"
        => /\ Len(bxResults) = Len(bxQueries)
           /\ \A i \in 1..Len(bxQueries) :
                 bxResults[i] = ExtractOutcome(bxQueries[i], ResolveLocale(bxQueries[i]),
                                               bxItems[i].response[1])

\* Witness of C9: a batch of two resolved although its second call completed
\* first, and the two results differ.
C9_Witness ==
    /\ bxPc = "resolved"
    /\ Len(bxQueries) = 2
    /\ bxOrder = << 2, 1 >>
    /\ bxResults[1] # bxResults[2]

(***************************************************************************)
(* Properties of the provider registry (checked under SpecRegistry)        *)
(***************************************************************************)
\* The type a getProvider call resolves: the explicit one, else the default.
ResolvedType(type) == IF type # <<>> THEN type[1] ELSE defaultProvider

RegistrationsOf(type) == { k \in 1..Len(regLog) : regLog[k][1] = type }

LastRegistered(type) ==
    regLog[CHOOSE k \in RegistrationsOf(type) :
               \A j \in RegistrationsOf(type) : j <= k][2]

\* C21: a getProvider call made after any sequence of registerProvider
\* calls returns the instance most recently registered under the resolved
\* type (the explicit type, or the default provider when none is given), and
\* throws the 'not registered' error naming the resolved type when nothing
\* was ever registered under it.
C21_GetProviderReturnsLatestRegistration ==
    gpCall # <<>> =>
        LET call     == gpCall[1]
            resolved == ResolvedType(call.type)
        IN  IF RegistrationsOf(resolved) = {}
            THEN /\ ~call.ok
                 /\ call.error.message = "Provider not registered"
                 /\ call.error.provider = resolved
            ELSE /\ call.ok
                 /\ call.error = NoError
                 /\ call.instance = LastRegistered(resolved)

\* "openai" was registered twice, with different instances, and looked up.
C21_Witness ==
    /\ gpCall # <<>>
    /\ gpCall[1].type = << "openai" >>
    /\ Cardinality(RegistrationsOf("openai")) >= 2
    /\ regLog[1] = << "openai", "OpenAIProvider" >>
    /\ gpCall[1].ok
    /\ gpCall[1].instance = "AnthropicProvider"

\* The fixed preference order of the default selection.
PreferenceOrder == << "anthropic", "openai" >>

FirstConfigured ==
    PreferenceOrder[CHOOSE i \in 1..Len(PreferenceOrder) :
                        /\ PreferenceOrder[i] \in apiKeys
                        /\ \A j \in 1..(i - 1) : PreferenceOrder[j] \notin apiKeys]

\* C27: whenever at least one credential is configured, the default provider
\* is the first type, in the order Anthropic then OpenAI, whose credential is
\* configured, the default model is the one tied to it (Claude Sonnet for
\* Anthropic, GPT-4o-mini for OpenAI), an instance is registered under the
\* default provider, and getProvider() with no argument succeeds.
C27_DefaultIsFirstConfigured ==
    apiKeys # {} =>
        /\ defaultProvider = FirstConfigured
        /\ defaultModel = (IF FirstConfigured = "anthropic"
                           THEN "claude-3-5-sonnet-20241022" ELSE "gpt-4o-mini")
        /\ RegistrationsOf(defaultProvider) # {}
        /\ providers[defaultProvider] # NoProvider
        /\ (gpCall # <<>> /\ gpCall[1].type = <<>>) => gpCall[1].ok

\* Both credentials are configured and getProvider() returned the Anthropic
\* instance the factory registered.
C27_Witness ==
    /\ apiKeys = {"openai", "anthropic"}
    /\ regLog = FactoryRegistrations(apiKeys)
    /\ gpCall # <<>>
    /\ gpCall[1].type = <<>>
    /\ gpCall[1].ok
    /\ gpCall[1].instance = "AnthropicProvider"

(***************************************************************************)
(* Properties of the delegating calls (checked under SpecService)          *)
(***************************************************************************)
\* C26: a call of complete / chat / generateJSON on the service invokes the
\* same-named operation of the resolved provider exactly once, with the
\* caller's options merged over {model: default model} (a model key given by
\* the caller wins), and settles exactly as the provider operation settles;
\* when the resolved provider is not registered the call fails and no
\* provider operation is invoked.
C26_ServiceCallsDelegate ==
    /\ svPc = "idle" => (svProviderCalls = <<>> /\ svOutcome = <<>>)
    /\ svPc # "idle" =>
          LET resolved == ResolvedType(svCall.provider)
          IN  IF providers[resolved] = NoProvider
              THEN /\ svProviderCalls = <<>>
                   /\ svProviderOutcome = <<>>
                   /\ svPc = "failed"
                   /\ svOutcome = << [ok |-> FALSE, kind |-> "not registered"] >>
              ELSE /\ Len(svProviderCalls) = 1
                   /\ svProviderCalls[1].instance = providers[resolved]
                   /\ svProviderCalls[1].method = svCall.method
                   /\ svProviderCalls[1].options.model =
                         (IF svCall.options.model # <<>>
                          THEN svCall.options.model[1] ELSE defaultModel)
                   /\ svProviderCalls[1].options.temperature
                         = svCall.options.temperature
                   /\ svOutcome = svProviderOutcome
                   /\ (svPc = "awaiting") = (svOutcome = <<>>)
                   /\ (svPc = "returned") = (svOutcome # <<>> /\ svOutcome[1].ok)

\* chat with a model of the caller's, on the explicitly named provider,
\* has returned what the provider returned.
C26_Witness ==
    /\ svPc = "returned"
    /\ svCall.method = "chat"
    /\ svCall.options.model = << "gpt-4o" >>
    /\ svCall.provider = << "openai" >>
    /\ defaultProvider = "anthropic"
    /\ Len(svProviderCalls) = 1
    /\ svProviderCalls[1] = [instance |-> "OpenAIProvider", method |-> "chat",
                             options |-> [model |-> "gpt-4o",
                                          temperature |-> svCall.options.temperature]]
    /\ svOutcome = svProviderOutcome

LocalesWithFile(name) == { l \in Locales : << l, name >> \in ptFiles }

\* C24: when the templates were loaded (at construction or by reload) from
\* the files as they are and a name has a file in exactly one locale,
\* getTemplate of that name for the other locale returns the content of the
\* existing file, not a hard-coded fallback.
C24_OtherLocaleSubstituted ==
    (/\ ptGet # <<>>
     /\ ptSeen = << ptDirs, ptFiles >>
     /\ ptDirs = Locales
     /\ Cardinality(LocalesWithFile(ptGet[1].name)) = 1
     /\ ptGet[1].locale \notin LocalesWithFile(ptGet[1].name))
        => \E l \in LocalesWithFile(ptGet[1].name) :
              ptGet[1].result = << l, ptGet[1].name >>

(***************************************************************************)
(* Properties of the schema validator (checked under SpecValidate)         *)
(***************************************************************************)
\* C25: a validate call never throws; its result has the key data iff valid
\* is true, and the key errors, holding a non-empty list of {path, message},
\* iff valid is false.
C25_ValidateNeverThrows ==
    \A k \in 1..Len(vlCalls) :
        vlCalls[k].method = "validate" =>
            LET result == vlCalls[k].result
            IN  /\ ~ vlCalls[k].threw
                /\ (result.data # <<>>) = result.valid
                /\ (result.errors # <<>>) = (~ result.valid)
                /\ result.errors # <<>> =>
                      /\ Len(result.errors[1]) >= 1
                      /\ \A i \in 1..Len(result.errors[1]) :
                            DOMAIN result.errors[1][i] = {"path", "message"}

\* validate returned the errors of a ZodError with a nested path once, and
\* the error of a parse that threw something else once.
C25_Witness ==
    \E j, k \in 1..Len(vlCalls) :
        /\ vlCalls[j].method = "validate"
        /\ vlCalls[j].result.errors = << << Issue("name.en", "Required") >> >>
        /\ vlCalls[k].method = "validate" /\ vlCalls[k].schema = "none"
        /\ vlCalls[k].result.errors = << << Issue("unknown", "Validation failed") >> >>

(***************************************************************************)
(* Properties of the messages of a call (checked under SpecMessages)       *)
(***************************************************************************)
\* The messages, in order, that satisfy keep.
RECURSIVE SelectMessages(_, _)
SelectMessages(messages, roles) ==
    IF messages = <<>> THEN <<>>
    ELSE (IF Head(messages).role \in roles THEN << Head(messages) >> ELSE <<>>)
         \o SelectMessages(Tail(messages), roles)

\* The contents of the messages, one after the other.
RECURSIVE ConcatContents(_)
ConcatContents(messages) ==
    IF messages = <<>> THEN <<>>
    ELSE Head(messages).content \o ConcatContents(Tail(messages))

\* The text with the separators put between system messages left out.
RECURSIVE WithoutSeparators(_)
WithoutSeparators(text) ==
    IF text = <<>> THEN <<>>
    ELSE (IF Head(text) = "\n\n" THEN <<>> ELSE << Head(text) >>)
         \o WithoutSeparators(Tail(text))

\* C28: the request AnthropicProvider sends for a message array carries, as
\* its system preamble, the contents of the system-role messages in their
\* order (no preamble when there is no system message), and, as its message
\* list, every other message of the array in the original order, none
\* dropped.
C28_AnthropicNormalization ==
    (cmInst = "AnthropicProvider" /\ cmDispatched # <<>>) =>
        LET request == cmDispatched[1]
            systems == SelectMessages(cmMessages, {"system"})
            others  == SelectMessages(cmMessages, MessageRoles \ {"system"})
        IN  /\ systems = <<>> => request.system = <<>>
            /\ (IF request.system = <<>> THEN <<>>
                ELSE WithoutSeparators(request.system[1]))
                  = ConcatContents(systems)
            /\ request.messages = others

\* C30: whatever generateJSON calls were made with it, and however they
\* ended, the caller's message array has the content the caller gave it.
C30_CallerMessagesUnchanged ==
    cmMessages = cmOriginal

====
